---- MODULE Spec2Model ----
(***************************************************************************)
(* Model of the hexagonal-example services: the in-memory user and product *)
(* repositories, the entities and their mutators, the validators, the      *)
(* processors, the services and the in-memory event bus.                   *)
(*                                                                         *)
(* Go strings are sequences of one-character strings, so that len,         *)
(* strings.TrimSpace and the email regular expression are computed.        *)
(* time.Time values are readings of a logical clock that advances at every *)
(* call of time.Now().  Prices (float64) are whole numbers.                *)
(***************************************************************************)
EXTENDS Integers, Sequences, FiniteSets, TLC

(***************************************************************************)
(* Bounds of the model                                                     *)
(***************************************************************************)
\* number of time.Now() readings in one run of the sequential services
MaxClock == 3
\* largest limit and offset passed to the list operations
MaxLimit == 2
\* largest number of items passed to a bulk operation
MaxItems == 3

(***************************************************************************)
(* Strings                                                                 *)
(***************************************************************************)
RECURSIVE Repeat(_, _)
Repeat(c, n) == IF n = 0 THEN <<>> ELSE <<c>> \o Repeat(c, n - 1)

Letters ==
  {"a","b","c","d","e","f","g","h","i","j","k","l","m","n","o","p","q","r",
   "s","t","u","v","w","x","y","z",
   "A","B","C","D","E","F","G","H","I","J","K","L","M","N","O","P","Q","R",
   "S","T","U","V","W","X","Y","Z"}

Digits == {"0","1","2","3","4","5","6","7","8","9"}

\* A string is the sequence of its bytes.  An ASCII byte is written as its
\* character, the vertical tab as "0x0B" and a byte of a multi-byte UTF-8
\* sequence by its value, "0xC2".
\* unicode.IsSpace: the runes strings.TrimSpace removes, each as its UTF-8
\* bytes: \t \n \v \f \r, space, U+0085, U+00A0, U+1680, U+2000..U+200A,
\* U+2028, U+2029, U+202F, U+205F, U+3000
WhiteSpace ==
  {<<" ">>, <<"\t">>, <<"\n">>, <<"0x0B">>, <<"\f">>, <<"\r">>,
   <<"0xC2","0x85">>, <<"0xC2","0xA0">>, <<"0xE1","0x9A","0x80">>,
   <<"0xE2","0x81","0x9F">>, <<"0xE3","0x80","0x80">>}
  \cup {<<"0xE2","0x80",b>> :
          b \in {"0x80","0x81","0x82","0x83","0x84","0x85","0x86","0x87",
                 "0x88","0x89","0x8A","0xA8","0xA9","0xAF"}}

\* the white space runes s begins with (at most one: no one is a prefix of
\* another)
LeadingSpace(s) ==
  {r \in WhiteSpace : Len(r) <= Len(s) /\ SubSeq(s, 1, Len(r)) = r}

\* the white space runes s ends with
TrailingSpace(s) ==
  {r \in WhiteSpace :
     Len(r) <= Len(s) /\ SubSeq(s, Len(s) - Len(r) + 1, Len(s)) = r}

RECURSIVE TrimLeft(_)
TrimLeft(s) ==
  IF LeadingSpace(s) = {} THEN s
  ELSE LET r == CHOOSE r \in LeadingSpace(s) : TRUE
       IN  TrimLeft(SubSeq(s, Len(r) + 1, Len(s)))

RECURSIVE TrimRight(_)
TrimRight(s) ==
  IF TrailingSpace(s) = {} THEN s
  ELSE LET r == CHOOSE r \in TrailingSpace(s) : TRUE
       IN  TrimRight(SubSeq(s, 1, Len(s) - Len(r)))

TrimSpace(s) == TrimRight(TrimLeft(s))

\* ^[a-zA-Z0-9._%+-]+@[a-zA-Z0-9.-]+\.[a-zA-Z]{2,}$
emailRegex(s) ==
  \E i \in 1..Len(s), j \in 1..Len(s) :
     /\ s[i] = "@"
     /\ s[j] = "."
     /\ i > 1
     /\ j > i + 1
     /\ Len(s) - j >= 2
     /\ \A k \in 1..(i - 1) : s[k] \in Letters \cup Digits \cup {".", "_", "%", "+", "-"}
     /\ \A k \in (i + 1)..(j - 1) : s[k] \in Letters \cup Digits \cup {".", "-"}
     /\ \A k \in (j + 1)..Len(s) : s[k] \in Letters

(***************************************************************************)
(* Numbers.  Go's int is 64 bits wide on the 64-bit platforms and its      *)
(* arithmetic wraps around silently.  An int is the tuple of the four      *)
(* 16-bit limbs of its two's complement, the most significant first:       *)
(* GoInt(10) is <<0, 0, 0, 10>> and GoInt(-1) is <<65535, 65535, 65535,    *)
(* 65535>>.  A float64 price is an integer or NaN, which every ordered     *)
(* comparison answers with false.                                          *)
(***************************************************************************)
\* the number of values of one limb
Limb == 2^16

\* the int of the number n, for n of at most 32 bits
GoInt(n) ==
  <<IF n < 0 THEN Limb - 1 ELSE 0, IF n < 0 THEN Limb - 1 ELSE 0,
    (n \div Limb) % Limb, n % Limb>>

\* the number of the int a, for a of at most 32 bits
Val(a) ==
  IF a[1] = 0 THEN a[3] * Limb + a[4] ELSE (a[3] - Limb) * Limb + a[4]

\* math.MaxInt: 2^63 - 1
MaxInt == <<32767, 65535, 65535, 65535>>

\* math.MinInt: -2^63
MinInt == <<32768, 0, 0, 0>>

\* a + b in Go's int: the sum modulo 2^64
IntAdd(a, b) ==
  LET s4 == a[4] + b[4]
      s3 == a[3] + b[3] + s4 \div Limb
      s2 == a[2] + b[2] + s3 \div Limb
      s1 == a[1] + b[1] + s2 \div Limb
  IN  <<s1 % Limb, s2 % Limb, s3 % Limb, s4 % Limb>>

\* -a in Go's int
IntNeg(a) ==
  IntAdd(<<Limb - 1 - a[1], Limb - 1 - a[2], Limb - 1 - a[3], Limb - 1 - a[4]>>,
         GoInt(1))

\* a - b in Go's int
IntSub(a, b) == IntAdd(a, IntNeg(b))

\* a < b in Go's int: the sign is the top bit of the first limb
IntLess(a, b) ==
  LET sa == (a[1] + 32768) % Limb
      sb == (b[1] + 32768) % Limb
  IN  \/ sa < sb
      \/ sa = sb /\ a[2] < b[2]
      \/ sa = sb /\ a[2] = b[2] /\ a[3] < b[3]
      \/ sa = sb /\ a[2] = b[2] /\ a[3] = b[3] /\ a[4] < b[4]

\* a <= b in Go's int
IntLeq(a, b) == ~IntLess(b, a)

\* a nil *float64 or *int, and a pointer at the number v
NilPtr == <<>>

Ptr(v) == <<v>>

\* math.NaN(), kept apart from every price by its encoding
NaN == -999999999

FloatLess(a, b) == a # NaN /\ b # NaN /\ a < b

FloatAtLeast(a, b) == a # NaN /\ b # NaN /\ a >= b

(***************************************************************************)
(* Errors (the messages of errors.New); NoError is a nil error             *)
(***************************************************************************)
NoError == "nil"

\* a nil pointer: no entity, or an optional argument that is not given
Nil == [nil |-> TRUE]

(***************************************************************************)
(* UserValidator                                                           *)
(***************************************************************************)
UserValidator_validateID(id) ==
  IF TrimSpace(id) = <<>> THEN "user ID cannot be empty"
  ELSE IF Len(id) < 3 THEN "user ID must be at least 3 characters long"
  ELSE IF Len(id) > 50 THEN "user ID cannot exceed 50 characters"
  ELSE NoError

validateEmail(email) ==
  IF TrimSpace(email) = <<>> THEN "email cannot be empty"
  ELSE IF Len(email) > 255 THEN "email cannot exceed 255 characters"
  ELSE IF ~emailRegex(email) THEN "invalid email format"
  ELSE NoError

UserValidator_validateName(name) ==
  IF TrimSpace(name) = <<>> THEN "name cannot be empty"
  ELSE IF Len(name) < 2 THEN "name must be at least 2 characters long"
  ELSE IF Len(name) > 100 THEN "name cannot exceed 100 characters"
  ELSE NoError

\* ValidateCreateUser without the validation of the email
ValidateCreateUser_noEmail(id, email, name) ==
  IF UserValidator_validateID(id) # NoError THEN UserValidator_validateID(id)
  ELSE IF UserValidator_validateName(name) # NoError
       THEN UserValidator_validateName(name)
  ELSE NoError

ValidateCreateUser(id, email, name) ==
  IF UserValidator_validateID(id) # NoError THEN UserValidator_validateID(id)
  ELSE IF validateEmail(email) # NoError THEN validateEmail(email)
  ELSE IF UserValidator_validateName(name) # NoError
       THEN UserValidator_validateName(name)
  ELSE NoError

\* email and name are *string: Nil models the nil pointer
ValidateUpdateUser(id, email, name) ==
  IF UserValidator_validateID(id) # NoError THEN UserValidator_validateID(id)
  ELSE IF email # Nil /\ validateEmail(email) # NoError THEN validateEmail(email)
  ELSE IF name # Nil /\ UserValidator_validateName(name) # NoError
       THEN UserValidator_validateName(name)
  ELSE NoError

(***************************************************************************)
(* ProductValidator                                                        *)
(***************************************************************************)
ProductValidator_validateID(id) ==
  IF TrimSpace(id) = <<>> THEN "product ID cannot be empty"
  ELSE IF Len(id) < 3 THEN "product ID must be at least 3 characters long"
  ELSE IF Len(id) > 50 THEN "product ID cannot exceed 50 characters"
  ELSE NoError

ProductValidator_validateName(name) ==
  IF TrimSpace(name) = <<>> THEN "product name cannot be empty"
  ELSE IF Len(name) < 2 THEN "product name must be at least 2 characters long"
  ELSE IF Len(name) > 200 THEN "product name cannot exceed 200 characters"
  ELSE NoError

validateDescription(description) ==
  IF Len(description) > 1000
  THEN "product description cannot exceed 1000 characters"
  ELSE NoError

validateCategory(category) ==
  IF TrimSpace(category) = <<>> THEN "product category cannot be empty"
  ELSE IF Len(category) < 2
       THEN "product category must be at least 2 characters long"
  ELSE IF Len(category) > 100
       THEN "product category cannot exceed 100 characters"
  ELSE NoError

validatePrice(price) ==
  IF FloatLess(price, 0) THEN "product price cannot be negative"
  ELSE IF FloatLess(1000000, price) THEN "product price cannot exceed 1,000,000"
  ELSE NoError

validateStock(stock) ==
  IF IntLess(stock, GoInt(0)) THEN "product stock cannot be negative"
  ELSE IF IntLess(GoInt(1000000), stock)
       THEN "product stock cannot exceed 1,000,000"
  ELSE NoError

\* ValidateCreateProduct that looks at the stock before the other fields
ValidateCreateProduct_stockFirst(id, name, description, category, price, stock) ==
  IF validateStock(stock) # NoError THEN validateStock(stock)
  ELSE IF ProductValidator_validateID(id) # NoError
       THEN ProductValidator_validateID(id)
  ELSE IF ProductValidator_validateName(name) # NoError
       THEN ProductValidator_validateName(name)
  ELSE IF validateDescription(description) # NoError
       THEN validateDescription(description)
  ELSE IF validateCategory(category) # NoError THEN validateCategory(category)
  ELSE IF validatePrice(price) # NoError THEN validatePrice(price)
  ELSE NoError

ValidateCreateProduct(id, name, description, category, price, stock) ==
  IF ProductValidator_validateID(id) # NoError
  THEN ProductValidator_validateID(id)
  ELSE IF ProductValidator_validateName(name) # NoError
       THEN ProductValidator_validateName(name)
  ELSE IF validateDescription(description) # NoError
       THEN validateDescription(description)
  ELSE IF validateCategory(category) # NoError THEN validateCategory(category)
  ELSE IF validatePrice(price) # NoError THEN validatePrice(price)
  ELSE IF validateStock(stock) # NoError THEN validateStock(stock)
  ELSE NoError

\* ValidateUpdateProduct that takes a nil name for an empty one
ValidateUpdateProduct_nameRequired(id, name, description, category, price, stock) ==
  IF ProductValidator_validateID(id) # NoError
  THEN ProductValidator_validateID(id)
  ELSE IF name = Nil THEN ProductValidator_validateName(<<>>)
  ELSE IF ProductValidator_validateName(name) # NoError
       THEN ProductValidator_validateName(name)
  ELSE IF description # Nil /\ validateDescription(description) # NoError
       THEN validateDescription(description)
  ELSE IF category # Nil /\ validateCategory(category) # NoError
       THEN validateCategory(category)
  ELSE IF price # NilPtr /\ validatePrice(price[1]) # NoError
       THEN validatePrice(price[1])
  ELSE IF stock # NilPtr /\ validateStock(stock[1]) # NoError
       THEN validateStock(stock[1])
  ELSE NoError

\* name, description and category are *string, Nil when nil; price and stock
\* are *float64 and *int, NilPtr when nil and Ptr(v) when they point at v
ValidateUpdateProduct(id, name, description, category, price, stock) ==
  IF ProductValidator_validateID(id) # NoError
  THEN ProductValidator_validateID(id)
  ELSE IF name # Nil /\ ProductValidator_validateName(name) # NoError
       THEN ProductValidator_validateName(name)
  ELSE IF description # Nil /\ validateDescription(description) # NoError
       THEN validateDescription(description)
  ELSE IF category # Nil /\ validateCategory(category) # NoError
       THEN validateCategory(category)
  ELSE IF price # NilPtr /\ validatePrice(price[1]) # NoError
       THEN validatePrice(price[1])
  ELSE IF stock # NilPtr /\ validateStock(stock[1]) # NoError
       THEN validateStock(stock[1])
  ELSE NoError

(***************************************************************************)
(* Entities                                                                *)
(***************************************************************************)
\* time.Now(): the reading taken when the clock shows clk
TimeNow(clk) == clk + 1

\* NewUser reading the clock once for each of the two time stamps
NewUser_twoReadings(id, email, name, clk) ==
  IF id = <<>> THEN [err |-> "user ID cannot be empty", ret |-> Nil, clk |-> clk]
  ELSE IF email = <<>>
       THEN [err |-> "user email cannot be empty", ret |-> Nil, clk |-> clk]
  ELSE IF name = <<>>
       THEN [err |-> "user name cannot be empty", ret |-> Nil, clk |-> clk]
  ELSE [err |-> NoError,
        ret |-> [ID |-> id, Email |-> email, Name |-> name,
                 CreatedAt |-> TimeNow(clk), UpdatedAt |-> TimeNow(TimeNow(clk)),
                 IsActive |-> TRUE],
        clk |-> TimeNow(TimeNow(clk))]

NewUser(id, email, name, clk) ==
  IF id = <<>> THEN [err |-> "user ID cannot be empty", ret |-> Nil, clk |-> clk]
  ELSE IF email = <<>>
       THEN [err |-> "user email cannot be empty", ret |-> Nil, clk |-> clk]
  ELSE IF name = <<>>
       THEN [err |-> "user name cannot be empty", ret |-> Nil, clk |-> clk]
  ELSE [err |-> NoError,
        ret |-> [ID |-> id, Email |-> email, Name |-> name,
                 CreatedAt |-> TimeNow(clk), UpdatedAt |-> TimeNow(clk),
                 IsActive |-> TRUE],
        clk |-> TimeNow(clk)]

User_Deactivate(u, clk) ==
  [ret |-> [u EXCEPT !.IsActive = FALSE, !.UpdatedAt = TimeNow(clk)],
   clk |-> TimeNow(clk)]

\* Activate that sets the flag and leaves the time stamp
User_Activate_noStamp(u, clk) ==
  [ret |-> [u EXCEPT !.IsActive = TRUE], clk |-> clk]

User_Activate(u, clk) ==
  [ret |-> [u EXCEPT !.IsActive = TRUE, !.UpdatedAt = TimeNow(clk)],
   clk |-> TimeNow(clk)]

User_UpdateEmail(u, newEmail, clk) ==
  IF newEmail = <<>>
  THEN [err |-> "email cannot be empty", ret |-> u, clk |-> clk]
  ELSE [err |-> NoError,
        ret |-> [u EXCEPT !.Email = newEmail, !.UpdatedAt = TimeNow(clk)],
        clk |-> TimeNow(clk)]

\* UpdateName that stamps the creation time as well
User_UpdateName_restamp(u, newName, clk) ==
  IF newName = <<>>
  THEN [err |-> "name cannot be empty", ret |-> u, clk |-> clk]
  ELSE [err |-> NoError,
        ret |-> [u EXCEPT !.Name = newName, !.UpdatedAt = TimeNow(clk),
                          !.CreatedAt = TimeNow(clk)],
        clk |-> TimeNow(clk)]

User_UpdateName(u, newName, clk) ==
  IF newName = <<>>
  THEN [err |-> "name cannot be empty", ret |-> u, clk |-> clk]
  ELSE [err |-> NoError,
        ret |-> [u EXCEPT !.Name = newName, !.UpdatedAt = TimeNow(clk)],
        clk |-> TimeNow(clk)]

NewProduct(id, name, description, category, price, stock, clk) ==
  IF id = <<>>
  THEN [err |-> "product ID cannot be empty", ret |-> Nil, clk |-> clk]
  ELSE IF name = <<>>
       THEN [err |-> "product name cannot be empty", ret |-> Nil, clk |-> clk]
  ELSE IF FloatLess(price, 0)
       THEN [err |-> "product price cannot be negative", ret |-> Nil, clk |-> clk]
  ELSE IF IntLess(stock, GoInt(0))
       THEN [err |-> "product stock cannot be negative", ret |-> Nil, clk |-> clk]
  ELSE [err |-> NoError,
        ret |-> [ID |-> id, Name |-> name, Description |-> description,
                 Price |-> price, Stock |-> stock, Category |-> category,
                 CreatedAt |-> TimeNow(clk), UpdatedAt |-> TimeNow(clk),
                 IsActive |-> TRUE],
        clk |-> TimeNow(clk)]

Product_UpdatePrice(p, newPrice, clk) ==
  IF FloatLess(newPrice, 0)
  THEN [err |-> "price cannot be negative", ret |-> p, clk |-> clk]
  ELSE [err |-> NoError,
        ret |-> [p EXCEPT !.Price = newPrice, !.UpdatedAt = TimeNow(clk)],
        clk |-> TimeNow(clk)]

Product_UpdateStock(p, newStock, clk) ==
  IF IntLess(newStock, GoInt(0))
  THEN [err |-> "stock cannot be negative", ret |-> p, clk |-> clk]
  ELSE [err |-> NoError,
        ret |-> [p EXCEPT !.Stock = newStock, !.UpdatedAt = TimeNow(clk)],
        clk |-> TimeNow(clk)]

Product_AddStock(p, quantity, clk) ==
  IF IntLeq(quantity, GoInt(0))
  THEN [err |-> "quantity must be positive", ret |-> p, clk |-> clk]
  ELSE [err |-> NoError,
        ret |-> [p EXCEPT !.Stock = IntAdd(p.Stock, quantity),
                          !.UpdatedAt = TimeNow(clk)],
        clk |-> TimeNow(clk)]

\* RemoveStock that takes what is left when the stock is insufficient
Product_RemoveStock_partial(p, quantity, clk) ==
  IF IntLeq(quantity, GoInt(0))
  THEN [err |-> "quantity must be positive", ret |-> p, clk |-> clk]
  ELSE IF IntLess(p.Stock, quantity)
       THEN [err |-> NoError,
             ret |-> [p EXCEPT !.Stock = GoInt(0), !.UpdatedAt = TimeNow(clk)],
             clk |-> TimeNow(clk)]
  ELSE [err |-> NoError,
        ret |-> [p EXCEPT !.Stock = IntSub(p.Stock, quantity),
                          !.UpdatedAt = TimeNow(clk)],
        clk |-> TimeNow(clk)]

Product_RemoveStock(p, quantity, clk) ==
  IF IntLeq(quantity, GoInt(0))
  THEN [err |-> "quantity must be positive", ret |-> p, clk |-> clk]
  ELSE IF IntLess(p.Stock, quantity)
       THEN [err |-> "insufficient stock", ret |-> p, clk |-> clk]
  ELSE [err |-> NoError,
        ret |-> [p EXCEPT !.Stock = IntSub(p.Stock, quantity),
                          !.UpdatedAt = TimeNow(clk)],
        clk |-> TimeNow(clk)]

Product_Deactivate(p, clk) ==
  [ret |-> [p EXCEPT !.IsActive = FALSE, !.UpdatedAt = TimeNow(clk)],
   clk |-> TimeNow(clk)]

Product_Activate(p, clk) ==
  [ret |-> [p EXCEPT !.IsActive = TRUE, !.UpdatedAt = TimeNow(clk)],
   clk |-> TimeNow(clk)]

(***************************************************************************)
(* In-memory repositories: the map, as a function from the stored IDs      *)
(***************************************************************************)
\* make(map[string]*entities.User): no key
EmptyStore == <<>>

\* the orders in which a range over the map can visit the keys in S
Perms(S) ==
  {f \in [1..Cardinality(S) -> S] : \A i, j \in 1..Cardinality(S) : f[i] = f[j] => i = j}

\* the pagination of the list operations: start, end, the clamp of end and
\* the copy loop.  make panics for a capacity end-start that is negative or,
\* after a sum or difference that wrapped around, beyond every allocation;
\* the loop panics at a negative index
Paginate(items, limit, offset) ==
  LET n        == GoInt(Len(items))
      start    == offset
      end0     == IntAdd(offset, limit)
      end      == IF IntLess(n, end0) THEN n ELSE end0
      capacity == IntSub(end, start)
  IN  IF IntLeq(n, start) THEN [panic |-> FALSE, list |-> <<>>]
      ELSE IF IntLess(capacity, GoInt(0)) THEN [panic |-> TRUE, list |-> <<>>]
      ELSE IF IntLess(start, end) /\ IntLess(start, GoInt(0))
           THEN [panic |-> TRUE, list |-> <<>>]
      ELSE IF IntLess(n, capacity) THEN [panic |-> TRUE, list |-> <<>>]
      ELSE [panic |-> FALSE,
            list |-> [i \in 1..Val(capacity) |-> items[Val(start) + i]]]

\* Save that keeps the record of an ID that is already stored
UserRepo_Save_keepFirst(users, user) ==
  [k \in DOMAIN users \cup {user.ID} |-> IF k \in DOMAIN users THEN users[k] ELSE user]

UserRepo_Save(users, user) ==
  [k \in DOMAIN users \cup {user.ID} |-> IF k = user.ID THEN user ELSE users[k]]

UserRepo_FindByID(users, id) ==
  IF id \in DOMAIN users THEN users[id] ELSE Nil

\* FindByEmail that returns the first user of the range whatever its email
UserRepo_FindByEmail_anyUser(users, email) ==
  IF DOMAIN users # {}
  THEN {users[k] : k \in DOMAIN users}
  ELSE {Nil}

\* the first user with that email in the order of the range over the map:
\* any of them
UserRepo_FindByEmail(users, email) ==
  IF \E k \in DOMAIN users : users[k].Email = email
  THEN {users[k] : k \in {x \in DOMAIN users : users[x].Email = email}}
  ELSE {Nil}

UserRepo_Exists(users, id) == id \in DOMAIN users

\* Delete that empties the map
UserRepo_Delete_clear(users, id) ==
  IF id \notin DOMAIN users
  THEN [err |-> "user not found", store |-> users]
  ELSE [err |-> NoError, store |-> EmptyStore]

UserRepo_Delete(users, id) ==
  IF id \notin DOMAIN users
  THEN [err |-> "user not found", store |-> users]
  ELSE [err |-> NoError,
        store |-> [k \in DOMAIN users \ {id} |-> users[k]]]

UserRepo_Count(users) == Cardinality(DOMAIN users)

UserRepo_FindAll(users, limit, offset) ==
  {Paginate([i \in 1..Len(o) |-> users[o[i]]], limit, offset) :
     o \in Perms(DOMAIN users)}

\* Save that keeps the record of an ID that is already stored
ProductRepo_Save_keepFirst(products, product) ==
  [k \in DOMAIN products \cup {product.ID} |->
     IF k \in DOMAIN products THEN products[k] ELSE product]

ProductRepo_Save(products, product) ==
  [k \in DOMAIN products \cup {product.ID} |->
     IF k = product.ID THEN product ELSE products[k]]

ProductRepo_FindByID(products, id) ==
  IF id \in DOMAIN products THEN products[id] ELSE Nil

\* Exists that never finds the product
ProductRepo_Exists_never(products, id) == FALSE

ProductRepo_Exists(products, id) == id \in DOMAIN products

ProductRepo_Delete(products, id) ==
  IF id \notin DOMAIN products
  THEN [err |-> "product not found", store |-> products]
  ELSE [err |-> NoError,
        store |-> [k \in DOMAIN products \ {id} |-> products[k]]]

ProductRepo_Count(products) == Cardinality(DOMAIN products)

ProductRepo_FindAll(products, limit, offset) ==
  {Paginate([i \in 1..Len(o) |-> products[o[i]]], limit, offset) :
     o \in Perms(DOMAIN products)}

\* p.IsAvailable() of an inactive product with stock
Product_IsAvailable_stockOnly(p) == IntLess(GoInt(0), p.Stock)

Product_IsAvailable(p) == p.IsActive /\ IntLess(GoInt(0), p.Stock)

\* the entities appended to the slice by the range loop over the map that
\* visits the keys in the order o
UserRepo_FindActive(users, limit, offset) ==
  {Paginate(SelectSeq([i \in 1..Len(o) |-> users[o[i]]],
                      LAMBDA user : user.IsActive),
            limit, offset) : o \in Perms(DOMAIN users)}

ProductRepo_FindAvailable(products, limit, offset) ==
  {Paginate(SelectSeq([i \in 1..Len(o) |-> products[o[i]]], Product_IsAvailable),
            limit, offset) : o \in Perms(DOMAIN products)}

ProductRepo_FindByCategory(products, category, limit, offset) ==
  {Paginate(SelectSeq([i \in 1..Len(o) |-> products[o[i]]],
                      LAMBDA product : product.Category = category),
            limit, offset) : o \in Perms(DOMAIN products)}

ProductRepo_FindByPriceRange(products, minPrice, maxPrice, limit, offset) ==
  {Paginate(SelectSeq([i \in 1..Len(o) |-> products[o[i]]],
                      LAMBDA product : /\ FloatAtLeast(product.Price, minPrice)
                                       /\ FloatAtLeast(maxPrice, product.Price)),
            limit, offset) : o \in Perms(DOMAIN products)}

(***************************************************************************)
(* Processors.  Each operator gives the set of outcomes of one call that   *)
(* runs alone: the error, the returned entity, the store and the clock     *)
(* after the call.                                                         *)
(***************************************************************************)
Failed(e, store, clk) == [err |-> e, ret |-> Nil, store |-> store, clk |-> clk]

\* CreateUser that saves the user whoever holds the email
UserProcessor_CreateUser_anyEmail(users, clk, id, email, name) ==
  IF UserRepo_Exists(users, id) THEN {Failed("user already exists", users, clk)}
  ELSE {LET n == NewUser(id, email, name, clk)
        IN  IF n.err # NoError THEN Failed(n.err, users, clk)
            ELSE [err |-> NoError, ret |-> n.ret,
                  store |-> UserRepo_Save(users, n.ret), clk |-> n.clk]}

UserProcessor_CreateUser(users, clk, id, email, name) ==
  IF UserRepo_Exists(users, id) THEN {Failed("user already exists", users, clk)}
  ELSE {IF existingUser # Nil THEN Failed("email already in use", users, clk)
        ELSE LET n == NewUser(id, email, name, clk)
             IN  IF n.err # NoError THEN Failed(n.err, users, clk)
                 ELSE [err |-> NoError, ret |-> n.ret,
                       store |-> UserRepo_Save(users, n.ret), clk |-> n.clk] :
        existingUser \in UserRepo_FindByEmail(users, email)}

\* UpdateUser that accepts any email without looking it up
UserProcessor_UpdateUser_noLookup(users, clk, id, email, name) ==
  LET user == UserRepo_FindByID(users, id)
      e == IF email = Nil THEN [err |-> NoError, ret |-> user, clk |-> clk]
           ELSE User_UpdateEmail(user, email, clk)
      n == IF name = Nil \/ e.err # NoError THEN e
           ELSE User_UpdateName(e.ret, name, e.clk)
  IN  IF user = Nil THEN {Failed("user not found", users, clk)}
      ELSE IF e.err # NoError THEN {Failed(e.err, users, e.clk)}
      ELSE IF n.err # NoError THEN {Failed(n.err, users, n.clk)}
      ELSE {[err |-> NoError, ret |-> n.ret,
             store |-> UserRepo_Save(users, n.ret), clk |-> n.clk]}

\* the user is the copy that FindByID returned: the store changes at Save only
UserProcessor_UpdateUser(users, clk, id, email, name) ==
  LET user == UserRepo_FindByID(users, id)
  IN  IF user = Nil THEN {Failed("user not found", users, clk)}
      ELSE
        {LET inUse == email # Nil /\ existingUser # Nil /\ existingUser.ID # id
             e == IF email = Nil THEN [err |-> NoError, ret |-> user, clk |-> clk]
                  ELSE User_UpdateEmail(user, email, clk)
             n == IF name = Nil \/ e.err # NoError THEN e
                  ELSE User_UpdateName(e.ret, name, e.clk)
         IN  IF inUse
             THEN Failed("email already in use by another user", users, clk)
             ELSE IF e.err # NoError THEN Failed(e.err, users, e.clk)
             ELSE IF n.err # NoError THEN Failed(n.err, users, n.clk)
             ELSE [err |-> NoError, ret |-> n.ret,
                   store |-> UserRepo_Save(users, n.ret), clk |-> n.clk] :
         existingUser \in IF email = Nil THEN {Nil}
                          ELSE UserRepo_FindByEmail(users, email)}

\* DeactivateUser that refuses a user that is inactive already
UserProcessor_DeactivateUser_once(users, clk, id) ==
  LET user == UserRepo_FindByID(users, id)
  IN  IF user = Nil THEN Failed("user not found", users, clk)
      ELSE IF ~user.IsActive THEN Failed("user already inactive", users, clk)
      ELSE LET m == User_Deactivate(user, clk)
           IN  [err |-> NoError, ret |-> m.ret,
                store |-> UserRepo_Save(users, m.ret), clk |-> m.clk]

UserProcessor_DeactivateUser(users, clk, id) ==
  LET user == UserRepo_FindByID(users, id)
  IN  IF user = Nil THEN Failed("user not found", users, clk)
      ELSE LET m == User_Deactivate(user, clk)
           IN  [err |-> NoError, ret |-> m.ret,
                store |-> UserRepo_Save(users, m.ret), clk |-> m.clk]

UserProcessor_ActivateUser(users, clk, id) ==
  LET user == UserRepo_FindByID(users, id)
  IN  IF user = Nil THEN Failed("user not found", users, clk)
      ELSE LET m == User_Activate(user, clk)
           IN  [err |-> NoError, ret |-> m.ret,
                store |-> UserRepo_Save(users, m.ret), clk |-> m.clk]

\* GetUser that returns the nil user of the repository without an error
UserProcessor_GetUser_absentOk(users, clk, id) ==
  [err |-> NoError, ret |-> UserRepo_FindByID(users, id), store |-> users,
   clk |-> clk]

UserProcessor_GetUser(users, clk, id) ==
  LET user == UserRepo_FindByID(users, id)
  IN  IF user = Nil THEN Failed("user not found", users, clk)
      ELSE [err |-> NoError, ret |-> user, store |-> users, clk |-> clk]

ProductProcessor_CreateProduct(products, clk, id, name, description, category, price, stock) ==
  IF ProductRepo_Exists(products, id)
  THEN Failed("product already exists", products, clk)
  ELSE LET n == NewProduct(id, name, description, category, price, stock, clk)
       IN  IF n.err # NoError THEN Failed(n.err, products, clk)
           ELSE [err |-> NoError, ret |-> n.ret,
                 store |-> ProductRepo_Save(products, n.ret), clk |-> n.clk]

\* UpdateProduct that saves what it had applied when a mutator fails
ProductProcessor_UpdateProduct_savePartial(products, clk, id, name, description, category, price, stock) ==
  LET product == ProductRepo_FindByID(products, id)
      named == [product EXCEPT
                  !.Name = IF name # Nil THEN name ELSE @,
                  !.Description = IF description # Nil THEN description ELSE @,
                  !.Category = IF category # Nil THEN category ELSE @]
      pr == IF price = NilPtr THEN [err |-> NoError, ret |-> named, clk |-> clk]
            ELSE Product_UpdatePrice(named, price[1], clk)
      st == IF stock = NilPtr \/ pr.err # NoError THEN pr
            ELSE Product_UpdateStock(pr.ret, stock[1], pr.clk)
  IN  IF product = Nil THEN Failed("product not found", products, clk)
      ELSE IF pr.err # NoError
           THEN Failed(pr.err, ProductRepo_Save(products, pr.ret), pr.clk)
      ELSE IF st.err # NoError
           THEN Failed(st.err, ProductRepo_Save(products, st.ret), st.clk)
      ELSE [err |-> NoError, ret |-> st.ret,
            store |-> ProductRepo_Save(products, st.ret), clk |-> st.clk]

\* the product is the copy that FindByID returned: the store changes at Save
ProductProcessor_UpdateProduct(products, clk, id, name, description, category, price, stock) ==
  LET product == ProductRepo_FindByID(products, id)
      named == [product EXCEPT
                  !.Name = IF name # Nil THEN name ELSE @,
                  !.Description = IF description # Nil THEN description ELSE @,
                  !.Category = IF category # Nil THEN category ELSE @]
      pr == IF price = NilPtr THEN [err |-> NoError, ret |-> named, clk |-> clk]
            ELSE Product_UpdatePrice(named, price[1], clk)
      st == IF stock = NilPtr \/ pr.err # NoError THEN pr
            ELSE Product_UpdateStock(pr.ret, stock[1], pr.clk)
  IN  IF product = Nil THEN Failed("product not found", products, clk)
      ELSE IF pr.err # NoError THEN Failed(pr.err, products, pr.clk)
      ELSE IF st.err # NoError THEN Failed(st.err, products, st.clk)
      ELSE [err |-> NoError, ret |-> st.ret,
            store |-> ProductRepo_Save(products, st.ret), clk |-> st.clk]

ProductProcessor_UpdateStock(products, clk, id, newStock) ==
  LET product == ProductRepo_FindByID(products, id)
  IN  IF product = Nil THEN Failed("product not found", products, clk)
      ELSE LET m == Product_UpdateStock(product, newStock, clk)
           IN  IF m.err # NoError THEN Failed(m.err, products, clk)
               ELSE [err |-> NoError, ret |-> m.ret,
                     store |-> ProductRepo_Save(products, m.ret), clk |-> m.clk]

ProductProcessor_AddStock(products, clk, id, quantity) ==
  LET product == ProductRepo_FindByID(products, id)
  IN  IF product = Nil THEN Failed("product not found", products, clk)
      ELSE LET m == Product_AddStock(product, quantity, clk)
           IN  IF m.err # NoError THEN Failed(m.err, products, clk)
               ELSE [err |-> NoError, ret |-> m.ret,
                     store |-> ProductRepo_Save(products, m.ret), clk |-> m.clk]

ProductProcessor_RemoveStock(products, clk, id, quantity) ==
  LET product == ProductRepo_FindByID(products, id)
  IN  IF product = Nil THEN Failed("product not found", products, clk)
      ELSE LET m == Product_RemoveStock(product, quantity, clk)
           IN  IF m.err # NoError THEN Failed(m.err, products, clk)
               ELSE [err |-> NoError, ret |-> m.ret,
                     store |-> ProductRepo_Save(products, m.ret), clk |-> m.clk]

ProductProcessor_DeactivateProduct(products, clk, id) ==
  LET product == ProductRepo_FindByID(products, id)
  IN  IF product = Nil THEN Failed("product not found", products, clk)
      ELSE LET m == Product_Deactivate(product, clk)
           IN  [err |-> NoError, ret |-> m.ret,
                store |-> ProductRepo_Save(products, m.ret), clk |-> m.clk]

ProductProcessor_ActivateProduct(products, clk, id) ==
  LET product == ProductRepo_FindByID(products, id)
  IN  IF product = Nil THEN Failed("product not found", products, clk)
      ELSE LET m == Product_Activate(product, clk)
           IN  [err |-> NoError, ret |-> m.ret,
                store |-> ProductRepo_Save(products, m.ret), clk |-> m.clk]

ProductProcessor_GetProduct(products, clk, id) ==
  LET product == ProductRepo_FindByID(products, id)
  IN  IF product = Nil THEN Failed("product not found", products, clk)
      ELSE [err |-> NoError, ret |-> product, store |-> products, clk |-> clk]

(***************************************************************************)
(* Event publishers: the typed event built from the entity and the type    *)
(* tag it is published under                                               *)
(***************************************************************************)
PublishUserCreated(user) ==
  [type |-> "user.created",
   event |-> [UserID |-> user.ID, Email |-> user.Email, Name |-> user.Name,
              CreatedAt |-> user.CreatedAt]]

PublishUserUpdated(user) ==
  [type |-> "user.updated",
   event |-> [UserID |-> user.ID, Email |-> user.Email, Name |-> user.Name,
              UpdatedAt |-> user.UpdatedAt]]

PublishUserDeactivated(user) ==
  [type |-> "user.deactivated",
   event |-> [UserID |-> user.ID, Email |-> user.Email,
              DeactivatedAt |-> user.UpdatedAt]]

PublishUserActivated(user) ==
  [type |-> "user.activated",
   event |-> [UserID |-> user.ID, Email |-> user.Email,
              ActivatedAt |-> user.UpdatedAt]]

PublishProductCreated(product) ==
  [type |-> "product.created",
   event |-> [ProductID |-> product.ID, Name |-> product.Name,
              Category |-> product.Category, Price |-> product.Price,
              Stock |-> product.Stock, CreatedAt |-> product.CreatedAt]]

PublishProductUpdated(product) ==
  [type |-> "product.updated",
   event |-> [ProductID |-> product.ID, Name |-> product.Name,
              Category |-> product.Category, Price |-> product.Price,
              Stock |-> product.Stock, UpdatedAt |-> product.UpdatedAt]]

PublishStockUpdated(product, oldStock) ==
  [type |-> "product.stock.updated",
   event |-> [ProductID |-> product.ID, Name |-> product.Name,
              OldStock |-> oldStock, NewStock |-> product.Stock,
              UpdatedAt |-> product.UpdatedAt]]

PublishProductDeactivated(product) ==
  [type |-> "product.deactivated",
   event |-> [ProductID |-> product.ID, Name |-> product.Name,
              DeactivatedAt |-> product.UpdatedAt]]

PublishProductActivated(product) ==
  [type |-> "product.activated",
   event |-> [ProductID |-> product.ID, Name |-> product.Name,
              ActivatedAt |-> product.UpdatedAt]]

(***************************************************************************)
(* Services: validator, then processor, then publisher.  An outcome also   *)
(* carries the events the call handed to the event bus.                    *)
(***************************************************************************)
Rejected(e, store, clk) ==
  [err |-> e, ret |-> Nil, store |-> store, clk |-> clk, events |-> <<>>]

\* the publication of ev on success, made twice
Published_twice(o, ev) ==
  IF o.err # NoError THEN Rejected(o.err, o.store, o.clk)
  ELSE [err |-> NoError, ret |-> o.ret, store |-> o.store, clk |-> o.clk,
        events |-> <<ev, ev>>]

\* the processor's outcome o, followed by the publication of ev on success
Published(o, ev) ==
  IF o.err # NoError THEN Rejected(o.err, o.store, o.clk)
  ELSE [err |-> NoError, ret |-> o.ret, store |-> o.store, clk |-> o.clk,
        events |-> <<ev>>]

UserService_CreateUser(users, clk, id, email, name) ==
  IF ValidateCreateUser(id, email, name) # NoError
  THEN {Rejected(ValidateCreateUser(id, email, name), users, clk)}
  ELSE {Published(o, IF o.err = NoError THEN PublishUserCreated(o.ret) ELSE Nil) :
          o \in UserProcessor_CreateUser(users, clk, id, email, name)}

UserService_UpdateUser(users, clk, id, email, name) ==
  IF ValidateUpdateUser(id, email, name) # NoError
  THEN {Rejected(ValidateUpdateUser(id, email, name), users, clk)}
  ELSE {Published(o, IF o.err = NoError THEN PublishUserUpdated(o.ret) ELSE Nil) :
          o \in UserProcessor_UpdateUser(users, clk, id, email, name)}

UserService_DeactivateUser(users, clk, id) ==
  LET o == UserProcessor_DeactivateUser(users, clk, id)
  IN  Published(o, IF o.err = NoError THEN PublishUserDeactivated(o.ret) ELSE Nil)

UserService_ActivateUser(users, clk, id) ==
  LET o == UserProcessor_ActivateUser(users, clk, id)
  IN  Published(o, IF o.err = NoError THEN PublishUserActivated(o.ret) ELSE Nil)

UserService_GetUser(users, clk, id) ==
  LET o == UserProcessor_GetUser(users, clk, id)
  IN  [err |-> o.err, ret |-> o.ret, store |-> o.store, clk |-> o.clk,
       events |-> <<>>]

ProductService_CreateProduct(products, clk, id, name, description, category, price, stock) ==
  IF ValidateCreateProduct(id, name, description, category, price, stock) # NoError
  THEN Rejected(ValidateCreateProduct(id, name, description, category, price, stock),
                products, clk)
  ELSE LET o == ProductProcessor_CreateProduct(products, clk, id, name,
                                                description, category, price, stock)
       IN  Published(o, IF o.err = NoError THEN PublishProductCreated(o.ret) ELSE Nil)

ProductService_UpdateProduct(products, clk, id, name, description, category, price, stock) ==
  LET e == ValidateUpdateProduct(id, name, description, category, price, stock)
      o == ProductProcessor_UpdateProduct(products, clk, id, name, description,
                                          category, price, stock)
  IN  IF e # NoError THEN Rejected(e, products, clk)
      ELSE Published(o, IF o.err = NoError THEN PublishProductUpdated(o.ret)
                        ELSE Nil)

ProductService_UpdateStock(products, clk, id, newStock) ==
  LET e == ValidateUpdateProduct(id, Nil, Nil, Nil, NilPtr, Ptr(newStock))
      g == ProductProcessor_GetProduct(products, clk, id)
  IN  IF e # NoError THEN Rejected(e, products, clk)
      ELSE IF g.err # NoError THEN Rejected(g.err, products, clk)
      ELSE LET oldStock == g.ret.Stock
               o == ProductProcessor_UpdateStock(products, clk, id, newStock)
           IN  Published(o, IF o.err = NoError
                            THEN PublishStockUpdated(o.ret, oldStock) ELSE Nil)

ProductService_AddStock(products, clk, id, quantity) ==
  LET g == ProductProcessor_GetProduct(products, clk, id)
  IN  IF g.err # NoError THEN Rejected(g.err, products, clk)
      ELSE LET oldStock == g.ret.Stock
               o == ProductProcessor_AddStock(products, clk, id, quantity)
           IN  Published(o, IF o.err = NoError
                            THEN PublishStockUpdated(o.ret, oldStock) ELSE Nil)

ProductService_RemoveStock(products, clk, id, quantity) ==
  LET g == ProductProcessor_GetProduct(products, clk, id)
  IN  IF g.err # NoError THEN Rejected(g.err, products, clk)
      ELSE LET oldStock == g.ret.Stock
               o == ProductProcessor_RemoveStock(products, clk, id, quantity)
           IN  Published(o, IF o.err = NoError
                            THEN PublishStockUpdated(o.ret, oldStock) ELSE Nil)

ProductService_DeactivateProduct(products, clk, id) ==
  LET o == ProductProcessor_DeactivateProduct(products, clk, id)
  IN  Published(o, IF o.err = NoError THEN PublishProductDeactivated(o.ret) ELSE Nil)

ProductService_ActivateProduct(products, clk, id) ==
  LET o == ProductProcessor_ActivateProduct(products, clk, id)
  IN  Published(o, IF o.err = NoError THEN PublishProductActivated(o.ret) ELSE Nil)

ProductService_GetProduct(products, clk, id) ==
  LET o == ProductProcessor_GetProduct(products, clk, id)
  IN  [err |-> o.err, ret |-> o.ret, store |-> o.store, clk |-> o.clk,
       events |-> <<>>]

(***************************************************************************)
(* In-memory event bus.  A []EventHandler is a slice header (backing       *)
(* array, len, cap); append writes into the backing array while len < cap  *)
(* and moves to a new array of twice the capacity when it is full.  The    *)
(* arrays allocated for one event type are numbered in order of            *)
(* allocation; an array that no slice points to any more is garbage and is *)
(* kept empty.                                                             *)
(***************************************************************************)
\* largest number of handlers subscribed to one event type
MaxHandlers == 2

EventTypes == {"user.created", "product.created"}

\* the subscribed handlers; HandlerB returns an error
EventHandlers == {"HandlerA", "HandlerB"}

Handle(handler) == IF handler = "HandlerB" THEN "handler failed" ELSE NoError

\* the zero slice handlers[eventType] of a type without entry in the map
NilSlice == [arr |-> 0, len |-> 0, cap |-> 0]

NoHandler == "nil"

\* the handlers a slice holds, in order
Elements(heap, slice) ==
  [i \in 1..slice.len |-> heap[slice.arr][i]]

\* an append that puts the handler before the elements of the slice
SliceAppend_front(heap, slice, handler) ==
  [heap |-> Append(heap, [i \in 1..(slice.len + 1) |->
                            IF i = 1 THEN handler ELSE heap[slice.arr][i - 1]]),
   slice |-> [arr |-> Len(heap) + 1, len |-> slice.len + 1, cap |-> slice.len + 1]]

\* append(slice, handler)
SliceAppend(heap, slice, handler) ==
  IF slice.len < slice.cap
  THEN [heap |-> [heap EXCEPT ![slice.arr][slice.len + 1] = handler],
        slice |-> [slice EXCEPT !.len = slice.len + 1]]
  ELSE LET newcap == IF slice.cap = 0 THEN 1 ELSE 2 * slice.cap
           newarr == [i \in 1..newcap |->
                        IF i <= slice.len THEN heap[slice.arr][i]
                        ELSE IF i = slice.len + 1 THEN handler ELSE NoHandler]
       IN  [heap |-> Append(heap, newarr),
            slice |-> [arr |-> Len(heap) + 1, len |-> slice.len + 1,
                       cap |-> newcap]]

\* append(handlers[:i], handlers[i+1:]...): the elements after index i move
\* one place down in the same backing array (i counts from 1 here)
SliceRemove(heap, slice, i) ==
  [heap |-> [heap EXCEPT ![slice.arr] =
               [k \in 1..slice.cap |->
                  IF k >= i /\ k < slice.len THEN heap[slice.arr][k + 1]
                  ELSE heap[slice.arr][k]]],
   slice |-> [slice EXCEPT !.len = slice.len - 1]]

\* the garbage collector: of the arrays in heap, those with index in live
\* are reachable
Collect(heap, live) ==
  [a \in 1..Len(heap) |->
     IF a \in live THEN heap[a] ELSE [k \in 1..Len(heap[a]) |-> NoHandler]]

\* the array the Publish call p is iterating over, when it is one of those
\* of eventType
Iterated(p, eventType) ==
  IF p.state = "dispatch" /\ p.type = eventType /\ p.i < p.snap.len
  THEN {p.snap.arr} ELSE {}

\* the index of the first h == handler of the range loop, 0 when none
FirstIndex(heap, slice, handler) ==
  IF \E i \in 1..slice.len : heap[slice.arr][i] = handler
  THEN CHOOSE i \in 1..slice.len :
         /\ heap[slice.arr][i] = handler
         /\ \A j \in 1..(i - 1) : heap[slice.arr][j] # handler
  ELSE 0

\* handlers whose type is EventHandlerFunc; the handlers of EventHandlers are
\* pointers to structs with a Handle method
FuncHandlers == {"FuncF", "FuncG"}

\* h == handler on two EventHandler values: interface values of one dynamic
\* type that is not comparable make the comparison panic
HandlerEquals(h, handler) ==
  IF h \in FuncHandlers /\ handler \in FuncHandlers THEN "panic"
  ELSE IF h = handler THEN "true"
  ELSE "false"

\* the range loop of Unsubscribe: it stops at the first element whose
\* comparison is not false, and removes it unless the comparison panicked
UnsubscribeLoop(heap, slice, handler) ==
  LET stop == {i \in 1..slice.len :
                 HandlerEquals(heap[slice.arr][i], handler) # "false"}
  IN  IF stop = {} THEN [panic |-> FALSE, heap |-> heap, slice |-> slice]
      ELSE LET i == CHOOSE k \in stop : \A j \in stop : k <= j
           IN  IF HandlerEquals(heap[slice.arr][i], handler) = "panic"
               THEN [panic |-> TRUE, heap |-> heap, slice |-> slice]
               ELSE [panic |-> FALSE,
                     heap |-> SliceRemove(heap, slice, i).heap,
                     slice |-> SliceRemove(heap, slice, i).slice]

(***************************************************************************)
(* sync.RWMutex: Lock waits until no reader and no writer holds the mutex, *)
(* RLock waits until no writer holds it.                                   *)
(***************************************************************************)
Stores == {"users", "products"}

Unlocked == [s \in Stores |-> [writer |-> FALSE, readers |-> 0]]

CanLock(m) == ~m.writer /\ m.readers = 0
CanRLock(m) == ~m.writer
Lock(m) == [m EXCEPT !.writer = TRUE]
Unlock(m) == [m EXCEPT !.writer = FALSE]
RLock(m) == [m EXCEPT !.readers = m.readers + 1]
RUnlock(m) == [m EXCEPT !.readers = m.readers - 1]

(***************************************************************************)
(* Inputs of the service calls                                             *)
(***************************************************************************)
UserIDs ==
  {<<"u","0","1">>, <<"u","0","2">>,      \* valid
   <<"a","b">>,                           \* shorter than 3 characters
   <<>>,                                  \* empty
   <<" "," "," ">>,                       \* white space only
   Repeat("x", 51)}                       \* longer than 50 characters

Emails ==
  {<<"a","@","b",".","c","o">>, <<"c","@","d",".","i","o">>,   \* valid
   <<"b","a","d","-","e","m","a","i","l">>,                    \* malformed
   <<>>}                                                       \* empty

UserNames == {<<"A","l">>, <<>>}

ProductIDs ==
  {<<"p","0","1">>, <<"p","0","2">>,      \* valid
   <<"p","1">>}                           \* shorter than 3 characters

ProductNames == {<<"P","e","n">>, <<>>}

Descriptions == {<<"i","n","k">>}

Categories == {<<"o","f","f","i","c","e">>, <<>>}

Prices == {5, -1, NaN}

Stocks == {GoInt(10), GoInt(-1)}

\* the arguments of CreateProduct: well-formed ones, and ones with one fault
CreateProductArgs ==
  {a \in [name : ProductNames, description : Descriptions,
          category : Categories, price : Prices, stock : Stocks] :
     Cardinality({f \in {"name", "category", "price", "stock"} :
                    \/ f = "name" /\ a.name = <<>>
                    \/ f = "category" /\ a.category = <<>>
                    \/ f = "price" /\ a.price # 5
                    \/ f = "stock" /\ a.stock # GoInt(10)}) <= 1}

Quantities == {GoInt(5), GoInt(10), GoInt(30), GoInt(0), GoInt(-1)}

AddQuantities == {GoInt(5), GoInt(10), GoInt(0), GoInt(-1), MaxInt}

\* the optional arguments of UpdateProduct
UpdateProductNames == {Nil, <<"C","a","p">>}

UpdatePrices == {NilPtr, Ptr(7), Ptr(-1), Ptr(NaN)}

UpdateStocks == {NilPtr, Ptr(GoInt(3)), Ptr(GoInt(-1))}

\* the arguments of UpdateProduct: nothing, one field, or price and stock
UpdateProductArgs ==
  {a \in [name : UpdateProductNames, price : UpdatePrices, stock : UpdateStocks] :
     a.name = Nil \/ (a.price = NilPtr /\ a.stock = NilPtr)}

NewStocks == {GoInt(3), GoInt(-1), GoInt(1000001)}

\* the limits and offsets of the list calls: small ones, and the largest int
Limits == {GoInt(n) : n \in -1..MaxLimit} \cup {MaxInt}

\* the optional arguments of UpdateUser: Nil is a nil pointer
UpdateEmails == {Nil, <<"a","@","b",".","c","o">>, <<"e","@","f",".","i","o">>, <<>>}

UpdateNames == {Nil, <<"B","o">>}

(***************************************************************************)
(* State                                                                   *)
(***************************************************************************)
VARIABLES
  users,      \* InMemoryUserRepository.users
  products,   \* InMemoryProductRepository.products
  clock,      \* the clock time.Now() reads
  last,       \* the last service call: its arguments, the stores before it
              \* and what it returned and published
  driven,     \* the service the driving collaborator of this run calls
  handlers,   \* InMemoryEventBus.handlers: the slice header of each event type
  arrays,     \* the backing arrays allocated for the slice of each event type
  pub,        \* the Publish call in progress, or the last one that returned
  mutex,      \* the sync.RWMutex of each repository
  thr,        \* the goroutines that call the services concurrently
  mem,        \* the entity objects in memory, the pointers the repository
              \* keeps in its map and the pointers its caller holds
  bulk        \* the bulk operation in progress, or the last one that returned

busVars == <<handlers, arrays, pub>>

concVars == <<mutex, thr>>

serviceVars == <<users, products, clock, last, driven>>

vars == <<users, products, clock, last, driven, handlers, arrays, pub, mutex,
         thr, mem, bulk>>

Call(op, args, o, list, panic) ==
  [op |-> op, args |-> args, err |-> o.err, ret |-> o.ret, list |-> list,
   panic |-> panic, events |-> o.events,
   preUsers |-> users, preProducts |-> products]

\* no bulk operation was called
NoBulk ==
  [state |-> "idle", op |-> "none", items |-> <<>>, i |-> 0,
   entities |-> <<>>, errors |-> <<>>]

\* no entity object has been allocated
NoMemory == [heap |-> <<>>, index |-> <<>>, held |-> <<>>]

\* no call has been made, or the caller is done with the result of the last
NoCall ==
  [op |-> "none", args |-> Nil, err |-> NoError, ret |-> Nil,
   list |-> <<>>, panic |-> FALSE, events |-> <<>>,
   preUsers |-> EmptyStore, preProducts |-> EmptyStore]

Init ==
  /\ users = EmptyStore
  /\ products = EmptyStore
  /\ clock = 0
  /\ last = NoCall
  /\ driven \in {"UserService", "ProductService", "ProductCatalog"}
  /\ handlers = [t \in EventTypes |-> NilSlice]
  /\ arrays = [t \in EventTypes |-> <<>>]
  /\ pub = [state |-> "idle"]
  /\ mutex = Unlocked
  /\ thr = <<>>
  /\ mem = NoMemory
  /\ bulk = NoBulk

\* the runs that make a call of the product service: one keeps the stock of
\* the products, the other edits the catalog
Callers(op) ==
  IF op \in {"CreateProduct", "GetProduct"} THEN {"ProductService", "ProductCatalog"}
  ELSE IF op \in {"UpdateProduct", "UpdateStock"} THEN {"ProductCatalog"}
  ELSE {"ProductService"}

\* a call of the user service with outcome o
UserCall(op, args, o) ==
  /\ driven = "UserService"
  /\ last = NoCall
  /\ o.clk <= MaxClock
  /\ users' = o.store
  /\ clock' = o.clk
  /\ last' = Call(op, args, o, <<>>, FALSE)
  /\ UNCHANGED <<products, driven, busVars, concVars, mem, bulk>>

\* a call of the product service with outcome o
ProductCall(op, args, o) ==
  /\ driven \in Callers(op)
  /\ last = NoCall
  /\ o.clk <= MaxClock
  /\ products' = o.store
  /\ clock' = o.clk
  /\ last' = Call(op, args, o, <<>>, FALSE)
  /\ UNCHANGED <<users, driven, busVars, concVars, mem, bulk>>

CreateUser ==
  /\ driven = "UserService"
  /\ last = NoCall
  /\ \E id \in UserIDs, email \in Emails, name \in UserNames :
      \E o \in UserService_CreateUser(users, clock, id, email, name) :
        UserCall("CreateUser", [id |-> id, email |-> email, name |-> name], o)

UpdateUser ==
  /\ driven = "UserService"
  /\ last = NoCall
  /\ \E id \in UserIDs, email \in UpdateEmails, name \in UpdateNames :
      \E o \in UserService_UpdateUser(users, clock, id, email, name) :
        UserCall("UpdateUser", [id |-> id, email |-> email, name |-> name], o)

DeactivateUser ==
  /\ driven = "UserService"
  /\ last = NoCall
  /\ \E id \in UserIDs :
      UserCall("DeactivateUser", [id |-> id],
               UserService_DeactivateUser(users, clock, id))

ActivateUser ==
  /\ driven = "UserService"
  /\ last = NoCall
  /\ \E id \in UserIDs :
      UserCall("ActivateUser", [id |-> id],
               UserService_ActivateUser(users, clock, id))

GetUser ==
  /\ driven = "UserService"
  /\ last = NoCall
  /\ \E id \in UserIDs :
      UserCall("GetUser", [id |-> id], UserService_GetUser(users, clock, id))

ListUsers ==
  /\ driven = "UserService"
  /\ last = NoCall
  /\ \E limit \in Limits, offset \in Limits :
      \E r \in UserRepo_FindAll(users, limit, offset) :
      /\ last' = Call("ListUsers", [limit |-> limit, offset |-> offset],
                      Rejected(NoError, users, clock), r.list, r.panic)
      /\ UNCHANGED <<users, products, clock, driven, busVars, concVars, mem, bulk>>

CreateProduct ==
  /\ driven \in Callers("CreateProduct")
  /\ last = NoCall
  /\ \E id \in ProductIDs, a \in CreateProductArgs :
      ProductCall("CreateProduct",
                  [id |-> id, name |-> a.name, description |-> a.description,
                   category |-> a.category, price |-> a.price, stock |-> a.stock],
                  ProductService_CreateProduct(products, clock, id, a.name,
                                               a.description, a.category,
                                               a.price, a.stock))

UpdateProduct ==
  /\ driven \in Callers("UpdateProduct")
  /\ last = NoCall
  /\ \E id \in ProductIDs, a \in UpdateProductArgs :
      ProductCall("UpdateProduct",
                  [id |-> id, name |-> a.name, price |-> a.price, stock |-> a.stock],
                  ProductService_UpdateProduct(products, clock, id, a.name, Nil, Nil,
                                               a.price, a.stock))

UpdateStock ==
  /\ driven \in Callers("UpdateStock")
  /\ last = NoCall
  /\ \E id \in ProductIDs, newStock \in NewStocks :
      ProductCall("UpdateStock", [id |-> id, newStock |-> newStock],
                  ProductService_UpdateStock(products, clock, id, newStock))

AddStock ==
  /\ driven \in Callers("AddStock")
  /\ last = NoCall
  /\ \E id \in ProductIDs, quantity \in AddQuantities :
      ProductCall("AddStock", [id |-> id, quantity |-> quantity],
                  ProductService_AddStock(products, clock, id, quantity))

RemoveStock ==
  /\ driven \in Callers("RemoveStock")
  /\ last = NoCall
  /\ \E id \in ProductIDs, quantity \in Quantities :
      ProductCall("RemoveStock", [id |-> id, quantity |-> quantity],
                  ProductService_RemoveStock(products, clock, id, quantity))

DeactivateProduct ==
  /\ driven \in Callers("DeactivateProduct")
  /\ last = NoCall
  /\ \E id \in ProductIDs :
      ProductCall("DeactivateProduct", [id |-> id],
                  ProductService_DeactivateProduct(products, clock, id))

ActivateProduct ==
  /\ driven \in Callers("ActivateProduct")
  /\ last = NoCall
  /\ \E id \in ProductIDs :
      ProductCall("ActivateProduct", [id |-> id],
                  ProductService_ActivateProduct(products, clock, id))

GetProduct ==
  /\ driven \in Callers("GetProduct")
  /\ last = NoCall
  /\ \E id \in ProductIDs :
      ProductCall("GetProduct", [id |-> id],
                  ProductService_GetProduct(products, clock, id))

ListProducts ==
  /\ driven = "ProductService"
  /\ last = NoCall
  /\ \E limit \in Limits, offset \in Limits :
      \E r \in ProductRepo_FindAll(products, limit, offset) :
      /\ last' = Call("ListProducts", [limit |-> limit, offset |-> offset],
                      Rejected(NoError, products, clock), r.list, r.panic)
      /\ UNCHANGED <<users, products, clock, driven, busVars, concVars, mem, bulk>>

\* the caller has looked at the result of the call and makes the next call
Return ==
  /\ last # NoCall
  /\ last' = NoCall
  /\ UNCHANGED <<users, products, clock, driven, busVars, concVars, mem, bulk>>

Next ==
  \/ Return
  \/ CreateUser
  \/ UpdateUser
  \/ DeactivateUser
  \/ ActivateUser
  \/ GetUser
  \/ ListUsers
  \/ CreateProduct
  \/ UpdateProduct
  \/ UpdateStock
  \/ AddStock
  \/ RemoveStock
  \/ DeactivateProduct
  \/ ActivateProduct
  \/ GetProduct
  \/ ListProducts

Spec == Init /\ [][Next]_vars

(***************************************************************************)
(* The event bus on its own: Subscribe and Unsubscribe run under the write *)
(* lock; Publish copies the slice header under the read lock and then      *)
(* calls the handlers without the lock, so that subscriptions can change   *)
(* while it dispatches.                                                    *)
(***************************************************************************)
InitBus ==
  /\ users = EmptyStore
  /\ products = EmptyStore
  /\ clock = 0
  /\ last = [op |-> "none"]
  /\ driven = "EventBus"
  /\ handlers = [t \in EventTypes |-> NilSlice]
  /\ arrays = [t \in EventTypes |-> <<>>]
  /\ pub = [state |-> "idle"]
  /\ mutex = Unlocked
  /\ thr = <<>>
  /\ mem = NoMemory
  /\ bulk = NoBulk

\* b.handlers[eventType] = append(b.handlers[eventType], handler)
SubscribeTo(eventType, handler) ==
  /\ handlers[eventType].len < MaxHandlers
  /\ LET a == SliceAppend(arrays[eventType], handlers[eventType], handler)
     IN  /\ arrays' = [arrays EXCEPT ![eventType] =
                         Collect(a.heap, {a.slice.arr} \cup Iterated(pub, eventType))]
         /\ handlers' = [handlers EXCEPT ![eventType] = a.slice]
  /\ UNCHANGED <<serviceVars, concVars, pub, mem, bulk>>

Subscribe ==
  \E eventType \in EventTypes, handler \in EventHandlers :
    SubscribeTo(eventType, handler)

\* pub.unsubscribed records that a handler of the event type was removed
\* while the Publish call was dispatching
Unsubscribe ==
  \E eventType \in EventTypes, handler \in EventHandlers :
    /\ LET i == FirstIndex(arrays[eventType], handlers[eventType], handler)
       IN  IF i = 0 THEN UNCHANGED <<arrays, handlers, pub, mem, bulk>>
           ELSE LET r == SliceRemove(arrays[eventType], handlers[eventType], i)
                IN  /\ arrays' = [arrays EXCEPT ![eventType] = r.heap]
                    /\ handlers' = [handlers EXCEPT ![eventType] = r.slice]
                    /\ pub' = IF pub.state = "dispatch" /\ pub.type = eventType
                              THEN [pub EXCEPT !.unsubscribed = TRUE]
                              ELSE pub
    /\ UNCHANGED <<serviceVars, concVars, mem, bulk>>

\* RLock; handlers := b.handlers[eventType]; RUnlock
PublishBegin ==
  \E eventType \in EventTypes :
    /\ pub.state # "dispatch"
    /\ pub' = [state |-> "dispatch", type |-> eventType,
               snap |-> handlers[eventType],
               registered |-> Elements(arrays[eventType], handlers[eventType]),
               i |-> 0, invoked |-> <<>>, err |-> NoError,
               unsubscribed |-> FALSE]
    /\ UNCHANGED <<serviceVars, concVars, handlers, arrays, mem, bulk>>

\* the range loop returning the error of the first handler that fails
PublishHandle_returnError ==
  /\ pub.state = "dispatch"
  /\ pub.i < pub.snap.len
  /\ LET handler == arrays[pub.type][pub.snap.arr][pub.i + 1]
         called == Append(pub.invoked,
                          [handler |-> handler, err |-> Handle(handler)])
     IN  pub' = IF Handle(handler) # NoError
                THEN [pub EXCEPT !.state = "returned", !.invoked = called,
                                 !.err = Handle(handler)]
                ELSE [pub EXCEPT !.i = pub.i + 1, !.invoked = called]
  /\ UNCHANGED <<serviceVars, concVars, handlers, arrays, mem, bulk>>

\* one iteration of the range loop: the handler is called, its error dropped
PublishHandle ==
  /\ pub.state = "dispatch"
  /\ pub.i < pub.snap.len
  /\ LET handler == arrays[pub.type][pub.snap.arr][pub.i + 1]
     IN  pub' = [pub EXCEPT !.i = pub.i + 1,
                            !.invoked = Append(pub.invoked,
                                               [handler |-> handler,
                                                err |-> Handle(handler)])]
  /\ arrays' = [arrays EXCEPT ![pub.type] =
                  Collect(arrays[pub.type],
                          {handlers[pub.type].arr} \cup Iterated(pub', pub.type))]
  /\ UNCHANGED <<serviceVars, concVars, handlers, mem, bulk>>

\* the end of the loop: return nil
PublishReturn ==
  /\ pub.state = "dispatch"
  /\ pub.i >= pub.snap.len
  /\ pub' = [pub EXCEPT !.state = "returned", !.err = NoError]
  /\ UNCHANGED <<serviceVars, concVars, handlers, arrays, mem, bulk>>

NextBus ==
  \/ Subscribe
  \/ Unsubscribe
  \/ PublishBegin
  \/ PublishHandle
  \/ PublishReturn

SpecBus == InitBus /\ [][NextBus]_vars

(***************************************************************************)
(* Goroutines.  Each goroutine makes one call: a service's create, or a    *)
(* repository method on the store that the run drives.  A repository       *)
(* method is two steps: it takes the store's mutex (Acquire), then runs    *)
(* its body and releases the mutex on return (the deferred Unlock or       *)
(* RUnlock).  Between two repository methods of one call no mutex is held. *)
(***************************************************************************)
MaxThreads == 2

Threads == 1..MaxThreads

GoUserIDs == {<<"u","0","1">>, <<"u","0","2">>, <<"u","0","3">>}
GoEmails == {<<"a","@","b",".","c","o">>, <<"c","@","d",".","i","o">>,
             <<"e","@","f",".","i","o">>}
GoProductIDs == {<<"p","0","1">>, <<"p","0","2">>, <<"p","0","3">>}

RepoMethods ==
  {"Exists", "FindByEmail", "FindByID", "FindAll", "Count", "Save", "Delete"}

\* Save taking the read lock
LockMode_sharedSave(method) ==
  IF method \in {"Delete"} THEN "Lock" ELSE "RLock"

\* the first statement of each repository method
LockMode(method) ==
  IF method \in {"Save", "Delete"} THEN "Lock" ELSE "RLock"

Store == IF driven = "UserService" THEN "users" ELSE "products"

Idle == [pc |-> "idle"]

\* a goroutine about to call a repository method
At(method, op, id, email, ent) ==
  [pc |-> method, in |-> FALSE, op |-> op, id |-> id, email |-> email,
   ent |-> ent]

\* a goroutine whose call has returned err, and the entity it saved with it
Returned(g, err) ==
  [pc |-> "done", op |-> g.op, id |-> g.id, email |-> g.email, err |-> err,
   ret |-> IF err = NoError THEN g.ent ELSE Nil]

Release(method) ==
  mutex' = [mutex EXCEPT ![Store] =
              IF LockMode(method) = "Lock" THEN Unlock(@) ELSE RUnlock(@)]

Inside(t, method) == thr[t].pc = method /\ thr[t].in

InitConc ==
  /\ users = EmptyStore
  /\ products = EmptyStore
  /\ clock = 0
  /\ last = [op |-> "none"]
  /\ driven \in {"UserService", "ProductService"}
  /\ handlers = [t \in EventTypes |-> NilSlice]
  /\ arrays = [t \in EventTypes |-> <<>>]
  /\ pub = [state |-> "idle"]
  /\ mutex = Unlocked
  /\ thr = [t \in Threads |-> Idle]
  /\ mem = NoMemory
  /\ bulk = NoBulk

\* UserService.CreateUser up to the processor's first repository call
GoCreateUser(t) ==
  /\ driven = "UserService"
  /\ thr[t] = Idle
  /\ \E id \in GoUserIDs, email \in GoEmails :
       LET g == At("Exists", "CreateUser", id, email, Nil)
           err == ValidateCreateUser(id, email, <<"A","l">>)
       IN  thr' = [thr EXCEPT ![t] = IF err # NoError THEN Returned(g, err)
                                     ELSE g]
  /\ UNCHANGED <<serviceVars, busVars, mutex, mem, bulk>>

\* ProductService.CreateProduct up to the processor's first repository call
GoCreateProduct(t) ==
  /\ driven = "ProductService"
  /\ thr[t] = Idle
  /\ \E id \in GoProductIDs :
       LET g == At("Exists", "CreateProduct", id, <<>>, Nil)
           err == ValidateCreateProduct(id, <<"P","e","n">>, <<"i","n","k">>,
                                        <<"o","f","f","i","c","e">>, 5, GoInt(10))
       IN  thr' = [thr EXCEPT ![t] = IF err # NoError THEN Returned(g, err)
                                     ELSE g]
  /\ UNCHANGED <<serviceVars, busVars, mutex, mem, bulk>>

\* a direct call of Delete, FindByID, FindAll or Count on the repository
GoRepository(t) ==
  /\ thr[t] = Idle
  /\ \E method \in {"Delete", "FindByID", "FindAll", "Count"},
        id \in IF driven = "UserService" THEN GoUserIDs ELSE GoProductIDs :
       thr' = [thr EXCEPT ![t] =
                 At(method, method,
                    IF method \in {"Count", "FindAll"} THEN <<>> ELSE id,
                    <<>>, Nil)]
  /\ UNCHANGED <<serviceVars, busVars, mutex, mem, bulk>>

\* r.mutex.Lock() or r.mutex.RLock() at the top of a repository method
Acquire(t) ==
  /\ thr[t].pc \in RepoMethods
  /\ ~thr[t].in
  /\ IF LockMode(thr[t].pc) = "Lock"
     THEN /\ CanLock(mutex[Store])
          /\ mutex' = [mutex EXCEPT ![Store] = Lock(@)]
     ELSE /\ CanRLock(mutex[Store])
          /\ mutex' = [mutex EXCEPT ![Store] = RLock(@)]
  /\ thr' = [thr EXCEPT ![t].in = TRUE]
  /\ UNCHANGED <<serviceVars, busVars, mem, bulk>>

\* the body of Exists and the processor's test of its result
Exists(t) ==
  /\ Inside(t, "Exists")
  /\ Release("Exists")
  /\ LET g == thr[t]
         exists == IF g.op = "CreateUser" THEN UserRepo_Exists(users, g.id)
                   ELSE ProductRepo_Exists(products, g.id)
     IN  thr' = [thr EXCEPT ![t] =
           IF exists
           THEN Returned(g, IF g.op = "CreateUser" THEN "user already exists"
                            ELSE "product already exists")
           ELSE IF g.op = "CreateUser"
                THEN At("FindByEmail", g.op, g.id, g.email, Nil)
                ELSE At("New", g.op, g.id, g.email, Nil)]
  /\ UNCHANGED <<serviceVars, busVars, mem, bulk>>

\* FindByEmail whose result the processor does not test
FindByEmail_untested(t) ==
  /\ Inside(t, "FindByEmail")
  /\ Release("FindByEmail")
  /\ thr' = [thr EXCEPT ![t] = At("New", thr[t].op, thr[t].id, thr[t].email, Nil)]
  /\ UNCHANGED <<serviceVars, busVars, mem, bulk>>

\* the body of FindByEmail and the processor's test of its result
FindByEmail(t) ==
  /\ Inside(t, "FindByEmail")
  /\ Release("FindByEmail")
  /\ LET g == thr[t]
     IN  \E existingUser \in UserRepo_FindByEmail(users, g.email) :
           thr' = [thr EXCEPT ![t] =
             IF existingUser # Nil THEN Returned(g, "email already in use")
             ELSE At("New", g.op, g.id, g.email, Nil)]
  /\ UNCHANGED <<serviceVars, busVars, mem, bulk>>

\* entities.NewUser or entities.NewProduct, which read the clock
New(t) ==
  /\ thr[t].pc = "New"
  /\ LET g == thr[t]
         n == IF g.op = "CreateUser"
              THEN NewUser(g.id, g.email, <<"A","l">>, clock)
              ELSE NewProduct(g.id, <<"P","e","n">>, <<"i","n","k">>,
                              <<"o","f","f","i","c","e">>, 5, GoInt(10), clock)
     IN  /\ clock' = n.clk
         /\ thr' = [thr EXCEPT ![t] =
              IF n.err # NoError THEN Returned(g, n.err)
              ELSE At("Save", g.op, g.id, g.email, n.ret)]
  /\ UNCHANGED <<users, products, last, driven, busVars, mutex, mem, bulk>>

\* the body of Save; the service then publishes the event, which has no
\* subscriber here, and returns the entity
Save(t) ==
  /\ Inside(t, "Save")
  /\ Release("Save")
  /\ LET g == thr[t]
     IN  /\ IF g.op = "CreateUser"
            THEN /\ users' = UserRepo_Save(users, g.ent)
                 /\ UNCHANGED products
            ELSE /\ products' = ProductRepo_Save(products, g.ent)
                 /\ UNCHANGED users
         /\ thr' = [thr EXCEPT ![t] = Returned(g, NoError)]
  /\ UNCHANGED <<clock, last, driven, busVars, mem, bulk>>

\* the body of Delete
Delete(t) ==
  /\ Inside(t, "Delete")
  /\ Release("Delete")
  /\ LET g == thr[t]
         d == IF Store = "users" THEN UserRepo_Delete(users, g.id)
              ELSE ProductRepo_Delete(products, g.id)
     IN  /\ IF Store = "users"
            THEN users' = d.store /\ UNCHANGED products
            ELSE products' = d.store /\ UNCHANGED users
         /\ thr' = [thr EXCEPT ![t] = Returned(g, d.err)]
  /\ UNCHANGED <<clock, last, driven, busVars, mem, bulk>>

\* the body of FindByID: the stored entity, or (nil, nil) for an absent id
FindByID(t) ==
  /\ Inside(t, "FindByID")
  /\ Release("FindByID")
  /\ LET g == thr[t]
         found == IF Store = "users" THEN UserRepo_FindByID(users, g.id)
                  ELSE ProductRepo_FindByID(products, g.id)
     IN  thr' = [thr EXCEPT ![t] = [Returned(g, NoError) EXCEPT !.ret = found]]
  /\ UNCHANGED <<serviceVars, busVars, mem, bulk>>

\* the body of FindAll, called with limit MaxLimit and offset 0
FindAll(t) ==
  /\ Inside(t, "FindAll")
  /\ Release("FindAll")
  /\ \E r \in IF Store = "users" THEN UserRepo_FindAll(users, GoInt(MaxLimit), GoInt(0))
              ELSE ProductRepo_FindAll(products, GoInt(MaxLimit), GoInt(0)) :
       thr' = [thr EXCEPT ![t] =
                 Returned(thr[t], IF r.panic THEN "panic" ELSE NoError)]
  /\ UNCHANGED <<serviceVars, busVars, mem, bulk>>

\* the body of Count
Count(t) ==
  /\ Inside(t, "Count")
  /\ Release("Count")
  /\ thr' = [thr EXCEPT ![t] = Returned(thr[t], NoError)]
  /\ UNCHANGED <<serviceVars, busVars, mem, bulk>>

NextConc ==
  \E t \in Threads :
    \/ GoCreateUser(t)
    \/ GoCreateProduct(t)
    \/ GoRepository(t)
    \/ Acquire(t)
    \/ Exists(t)
    \/ FindByEmail(t)
    \/ New(t)
    \/ Save(t)
    \/ Delete(t)
    \/ FindByID(t)
    \/ FindAll(t)
    \/ Count(t)

SpecConc == InitConc /\ [][NextConc]_vars

(***************************************************************************)
(* The repositories with the entities as objects in memory: the map of a   *)
(* repository holds pointers, Save copies the struct it is given, the Find *)
(* methods copy the struct they return, and the caller writes through the  *)
(* pointers it holds.  An address is a place in mem.heap.                  *)
(***************************************************************************)
MaxObjects == 4

OwnUserIDs == {<<"u","0","1">>, <<"u","0","2">>}

OwnEmails == {<<"a","@","b",".","c","o">>, <<"c","@","d",".","i","o">>}

\* the email each user is created with
OwnEmailOf(id) ==
  IF id = <<"u","0","1">> THEN <<"a","@","b",".","c","o">>
  ELSE <<"c","@","d",".","i","o">>

OwnProductIDs == {<<"p","0","1">>, <<"p","0","2">>}

\* the caller holds the pointer a, which it got from the call named by from
Hold(held, a, from) ==
  [x \in DOMAIN held \cup {a} |->
     IF x = a THEN [from |-> from, saved |-> FALSE, mutated |-> FALSE]
     ELSE held[x]]

\* the records of the repository: what its pointers point to
Stored(m) == [k \in DOMAIN m.index |-> m.heap[m.index[k]]]

\* Save that keeps the pointer of the caller in the map
Mem_Save_alias(m, a) ==
  LET v == m.heap[a]
  IN  [heap  |-> m.heap,
       index |-> [k \in DOMAIN m.index \cup {v.ID} |->
                    IF k = v.ID THEN a ELSE m.index[k]],
       held  |-> [m.held EXCEPT ![a].saved = TRUE, ![a].mutated = FALSE]]

\* userCopy := *user; r.users[user.ID] = &userCopy
Mem_Save(m, a) ==
  LET v == m.heap[a]
      c == Len(m.heap) + 1
  IN  [heap  |-> Append(m.heap, v),
       index |-> [k \in DOMAIN m.index \cup {v.ID} |->
                    IF k = v.ID THEN c ELSE m.index[k]],
       held  |-> [m.held EXCEPT ![a].saved = TRUE, ![a].mutated = FALSE]]

\* userCopy := *user; return &userCopy, or nil for an id that is not stored
Mem_FindByID(m, id) ==
  IF id \notin DOMAIN m.index THEN m
  ELSE [m EXCEPT !.heap = Append(@, m.heap[m.index[id]]),
                 !.held = Hold(@, Len(m.heap) + 1, "FindByID")]

\* the copy of the first user of the range with that email: any of them
Mem_FindByEmail(m, email) ==
  IF \A k \in DOMAIN m.index : m.heap[m.index[k]].Email # email THEN {m}
  ELSE {[m EXCEPT !.heap = Append(@, m.heap[m.index[k]]),
                  !.held = Hold(@, Len(m.heap) + 1, "FindByEmail")] :
          k \in {x \in DOMAIN m.index : m.heap[m.index[x]].Email = email}}

\* the pointers of the map in an order of the range, the page of them, and
\* one copy for each pointer of the page
Mem_FindAll(m, limit, offset) ==
  {LET page == Paginate([i \in 1..Len(o) |-> m.index[o[i]]], limit, offset)
       n == Len(m.heap)
       addrs == {n + i : i \in 1..Len(page.list)}
   IN  IF page.panic THEN m
       ELSE [m EXCEPT
               !.heap = @ \o [i \in 1..Len(page.list) |-> m.heap[page.list[i]]],
               !.held = [x \in DOMAIN @ \cup addrs |->
                           IF x \in addrs
                           THEN [from |-> "FindAll", saved |-> FALSE,
                                 mutated |-> FALSE]
                           ELSE @[x]]] :
     o \in Perms(DOMAIN m.index)}

\* a method of the entity called through the pointer a
Mem_Mutate(m, a, v) ==
  [m EXCEPT !.heap[a] = v, !.held[a].mutated = TRUE]

InitOwn ==
  /\ users = EmptyStore
  /\ products = EmptyStore
  /\ clock = 0
  /\ last = [op |-> "none"]
  /\ driven \in {"UserService", "ProductService"}
  /\ handlers = [t \in EventTypes |-> NilSlice]
  /\ arrays = [t \in EventTypes |-> <<>>]
  /\ pub = [state |-> "idle"]
  /\ mutex = Unlocked
  /\ thr = <<>>
  /\ mem = NoMemory
  /\ bulk = NoBulk

\* the caller of the repository makes a step that leaves memory as m
OwnStep(m, clk) ==
  /\ Len(m.heap) <= MaxObjects
  /\ clk <= MaxClock
  /\ mem' = m
  /\ clock' = clk
  /\ UNCHANGED <<users, products, last, driven, busVars, concVars, bulk>>

\* entities.NewUser, entities.NewProduct: the caller holds the new entity
OwnNew ==
  \/ /\ driven = "UserService"
     /\ \E id \in OwnUserIDs :
          LET n == NewUser(id, OwnEmailOf(id), <<"A","l">>, clock)
          IN  OwnStep([mem EXCEPT !.heap = Append(@, n.ret),
                                  !.held = Hold(@, Len(mem.heap) + 1, "New")],
                      n.clk)
  \/ /\ driven = "ProductService"
     /\ \E id \in OwnProductIDs :
          LET n == NewProduct(id, <<"P","e","n">>, <<"i","n","k">>,
                              <<"o","f","f","i","c","e">>, 5, GoInt(10), clock)
          IN  OwnStep([mem EXCEPT !.heap = Append(@, n.ret),
                                  !.held = Hold(@, Len(mem.heap) + 1, "New")],
                      n.clk)

OwnSave ==
  \E a \in DOMAIN mem.held : OwnStep(Mem_Save(mem, a), clock)

OwnFindByID ==
  \E id \in OwnUserIDs \cup OwnProductIDs :
    /\ id \in DOMAIN mem.index
    /\ OwnStep(Mem_FindByID(mem, id), clock)

OwnFindByEmail ==
  /\ driven = "UserService"
  /\ \E email \in OwnEmails :
       \E m \in Mem_FindByEmail(mem, email) :
         /\ m # mem
         /\ OwnStep(m, clock)

OwnFindAll ==
  \E limit \in 1..MaxLimit, offset \in 0..1 :
    \E m \in Mem_FindAll(mem, GoInt(limit), GoInt(offset)) :
      /\ m # mem
      /\ OwnStep(m, clock)

\* the caller changes an entity it holds: user.UpdateEmail, user.Deactivate,
\* product.AddStock, product.Deactivate
OwnMutate ==
  \E a \in DOMAIN mem.held :
    \/ /\ driven = "UserService"
       /\ \E email \in OwnEmails :
            LET u == User_UpdateEmail(mem.heap[a], email, clock)
            IN  /\ u.ret # mem.heap[a]
                /\ OwnStep(Mem_Mutate(mem, a, u.ret), u.clk)
    \/ /\ driven = "UserService"
       /\ LET u == User_Deactivate(mem.heap[a], clock)
          IN  OwnStep(Mem_Mutate(mem, a, u.ret), u.clk)
    \/ /\ driven = "ProductService"
       /\ LET p == Product_AddStock(mem.heap[a], GoInt(5), clock)
          IN  OwnStep(Mem_Mutate(mem, a, p.ret), p.clk)
    \/ /\ driven = "ProductService"
       /\ LET p == Product_Deactivate(mem.heap[a], clock)
          IN  OwnStep(Mem_Mutate(mem, a, p.ret), p.clk)

NextOwn ==
  \/ OwnNew
  \/ OwnSave
  \/ OwnFindByID
  \/ OwnFindByEmail
  \/ OwnFindAll
  \/ OwnMutate

SpecOwn == InitOwn /\ [][NextOwn]_vars

(***************************************************************************)
(* A service call with the event bus behind its publisher: the service     *)
(* validates and processes, the publisher builds the event and calls       *)
(* Publish, Publish calls the handlers subscribed to the type of the       *)
(* event, and the service returns.  One goroutine; the handlers are        *)
(* subscribed before the first call, as setupEventHandlers does.           *)
(***************************************************************************)
\* the event types of the user service
UserEventTypes == {"user.created", "user.updated", "user.deactivated", "user.activated"}

\* the event types of the product service
ProductEventTypes ==
  {"product.created", "product.updated", "product.stock.updated",
   "product.deactivated", "product.activated"}

\* the event types handlers are subscribed to in these runs
NotifyEventTypes == UserEventTypes \cup ProductEventTypes

\* the calls of the driving collaborator
NotifyCalls ==
  IF driven = "UserService"
  THEN {[op |-> "CreateUser",
         args |-> [id |-> id, email |-> <<"a","@","b",".","c","o">>,
                   name |-> <<"A","l">>]] : id \in {<<"u","0","1">>, <<"a","b">>}}
       \cup {[op |-> "UpdateUser",
              args |-> [id |-> <<"u","0","1">>, email |-> Nil, name |-> name]] :
               name \in {<<"B","o">>, <<>>}}
       \cup {[op |-> op, args |-> [id |-> <<"u","0","1">>]] :
               op \in {"DeactivateUser", "ActivateUser"}}
  ELSE {[op |-> "CreateProduct",
         args |-> [id |-> <<"p","0","1">>, name |-> <<"P","e","n">>,
                   description |-> <<"i","n","k">>,
                   category |-> <<"o","f","f","i","c","e">>,
                   price |-> price, stock |-> GoInt(10)]] : price \in {5, -1}}
       \cup {[op |-> "UpdateProduct",
              args |-> [id |-> <<"p","0","1">>, name |-> Nil, price |-> Ptr(7),
                        stock |-> NilPtr]]}
       \cup {[op |-> "UpdateStock", args |-> [id |-> <<"p","0","1">>, newStock |-> GoInt(3)]]}
       \cup {[op |-> "AddStock", args |-> [id |-> <<"p","0","1">>, quantity |-> GoInt(5)]]}
       \cup {[op |-> "RemoveStock", args |-> [id |-> <<"p","0","1">>, quantity |-> GoInt(q)]] :
               q \in {5, 30}}
       \cup {[op |-> op, args |-> [id |-> <<"p","0","1">>]] :
               op \in {"DeactivateProduct", "ActivateProduct"}}

\* what the validator, the processor and the construction of the event of
\* the call leave: the outcomes of the service operation
ServiceOutcomes(op, a) ==
  CASE op = "CreateUser" -> UserService_CreateUser(users, clock, a.id, a.email, a.name)
    [] op = "UpdateUser" -> UserService_UpdateUser(users, clock, a.id, a.email, a.name)
    [] op = "DeactivateUser" -> {UserService_DeactivateUser(users, clock, a.id)}
    [] op = "ActivateUser" -> {UserService_ActivateUser(users, clock, a.id)}
    [] op = "CreateProduct" ->
         {ProductService_CreateProduct(products, clock, a.id, a.name, a.description,
                                       a.category, a.price, a.stock)}
    [] op = "UpdateProduct" ->
         {ProductService_UpdateProduct(products, clock, a.id, a.name, Nil, Nil,
                                       a.price, a.stock)}
    [] op = "UpdateStock" -> {ProductService_UpdateStock(products, clock, a.id, a.newStock)}
    [] op = "AddStock" -> {ProductService_AddStock(products, clock, a.id, a.quantity)}
    [] op = "RemoveStock" -> {ProductService_RemoveStock(products, clock, a.id, a.quantity)}
    [] op = "DeactivateProduct" -> {ProductService_DeactivateProduct(products, clock, a.id)}
    [] op = "ActivateProduct" -> {ProductService_ActivateProduct(products, clock, a.id)}

\* b.handlers[eventType]: the zero slice for a type without entry
HandlersOf(eventType) ==
  IF eventType \in DOMAIN handlers THEN handlers[eventType] ELSE NilSlice

RECURSIVE SubscribedTotal(_)
SubscribedTotal(types) ==
  IF types = {} THEN 0
  ELSE LET t == CHOOSE x \in types : TRUE
       IN  handlers[t].len + SubscribedTotal(types \ {t})

InitNotify ==
  /\ users = EmptyStore
  /\ products = EmptyStore
  /\ clock = 0
  /\ last = NoCall
  /\ driven \in {"UserService", "ProductService"}
  /\ handlers = [t \in NotifyEventTypes |-> NilSlice]
  /\ arrays = [t \in NotifyEventTypes |-> <<>>]
  /\ pub = [state |-> "idle"]
  /\ mutex = Unlocked
  /\ thr = <<>>
  /\ mem = NoMemory
  /\ bulk = NoBulk

\* setupEventHandlers: the subscriptions made before the first call, to the
\* event types of the service of the run
NotifySubscribe ==
  /\ clock = 0
  /\ last = NoCall
  /\ pub.state = "idle"
  /\ SubscribedTotal(NotifyEventTypes) < MaxHandlers
  /\ \E eventType \in NotifyEventTypes, handler \in EventHandlers :
       /\ (driven = "UserService") = (eventType \in UserEventTypes)
       /\ SubscribeTo(eventType, handler)

\* the service call up to the first step of Publish: a call that fails
\* returns, a call that succeeds has written the store and Publish has read
\* the slice of the handlers of the type of the event
ServiceCall ==
  \E c \in NotifyCalls :
    \E o \in ServiceOutcomes(c.op, c.args) :
      /\ last = NoCall
      /\ pub.state \in {"idle", "done"}
      /\ o.clk <= MaxClock
      /\ clock' = o.clk
      /\ IF driven = "UserService"
         THEN users' = o.store /\ UNCHANGED products
         ELSE products' = o.store /\ UNCHANGED users
      /\ IF o.events = <<>>
         THEN /\ last' = Call(c.op, c.args, o, <<>>, FALSE)
              /\ pub' = [state |-> "idle"]
         ELSE /\ last' = last
              /\ pub' = [state |-> "dispatch", type |-> o.events[1].type,
                         snap |-> HandlersOf(o.events[1].type),
                         registered |-> Elements(arrays[o.events[1].type],
                                                 HandlersOf(o.events[1].type)),
                         i |-> 0, invoked |-> <<>>, err |-> NoError,
                         unsubscribed |-> FALSE,
                         event |-> o.events[1].event,
                         written |-> o.store,
                         call |-> Call(c.op, c.args, o, <<>>, FALSE)]
      /\ UNCHANGED <<driven, handlers, arrays, concVars, mem, bulk>>

\* a service that returns the error of a handler to its caller
ServiceReturn_handlerError ==
  /\ pub.state = "returned"
  /\ last = NoCall
  /\ "call" \in DOMAIN pub
  /\ last' = IF \E k \in 1..Len(pub.invoked) : pub.invoked[k].err # NoError
             THEN [pub.call EXCEPT !.err = "handler failed", !.ret = Nil]
             ELSE pub.call
  /\ pub' = [pub EXCEPT !.state = "done"]
  /\ UNCHANGED <<users, products, clock, driven, handlers, arrays, concVars, mem, bulk>>

\* Publish has returned: the service drops its error and returns the entity;
\* pub.state = "done" says that the call Publish was made for has returned
ServiceReturn ==
  /\ pub.state = "returned"
  /\ last = NoCall
  /\ "call" \in DOMAIN pub
  /\ last' = pub.call
  /\ pub' = [pub EXCEPT !.state = "done"]
  /\ UNCHANGED <<users, products, clock, driven, handlers, arrays, concVars, mem, bulk>>

NextNotify ==
  \/ NotifySubscribe
  \/ ServiceCall
  \/ PublishHandle
  \/ PublishReturn
  \/ ServiceReturn
  \/ Return

SpecNotify == InitNotify /\ [][NextNotify]_vars

(***************************************************************************)
(* The repositories called directly by one goroutine: Save, Delete and     *)
(* the reads Exists, FindByID and Count.                                   *)
(***************************************************************************)
InitRepo ==
  /\ users = EmptyStore
  /\ products = EmptyStore
  /\ clock = 0
  /\ last = NoCall
  /\ driven \in {"UserService", "ProductService"}
  /\ handlers = [t \in EventTypes |-> NilSlice]
  /\ arrays = [t \in EventTypes |-> <<>>]
  /\ pub = [state |-> "idle"]
  /\ mutex = Unlocked
  /\ thr = <<>>
  /\ mem = NoMemory
  /\ bulk = NoBulk

\* a call of the repository of the run that returns err and leaves store
RepoCall(op, id, err, ret, store, clk) ==
  /\ last.op = "none"
  /\ clk <= MaxClock
  /\ clock' = clk
  /\ last' = Call(op, [id |-> id], [err |-> err, ret |-> ret, events |-> <<>>],
                  <<>>, FALSE)
  /\ IF driven = "UserService"
     THEN users' = store /\ UNCHANGED products
     ELSE products' = store /\ UNCHANGED users
  /\ UNCHANGED <<driven, busVars, concVars, mem, bulk>>

\* Save of a new entity with the id
RepoSave ==
  \/ /\ driven = "UserService"
     /\ \E id \in OwnUserIDs :
          LET n == NewUser(id, OwnEmailOf(id), <<"A","l">>, clock)
          IN  RepoCall("Save", id, NoError, n.ret, UserRepo_Save(users, n.ret), n.clk)
  \/ /\ driven = "ProductService"
     /\ \E id \in OwnProductIDs :
          LET n == NewProduct(id, <<"P","e","n">>, <<"i","n","k">>,
                              <<"o","f","f","i","c","e">>, 5, GoInt(10), clock)
          IN  RepoCall("Save", id, NoError, n.ret, ProductRepo_Save(products, n.ret),
                       n.clk)

RepoDelete ==
  \/ /\ driven = "UserService"
     /\ \E id \in OwnUserIDs :
          LET d == UserRepo_Delete(users, id)
          IN  RepoCall("Delete", id, d.err, Nil, d.store, clock)
  \/ /\ driven = "ProductService"
     /\ \E id \in OwnProductIDs :
          LET d == ProductRepo_Delete(products, id)
          IN  RepoCall("Delete", id, d.err, Nil, d.store, clock)

RepoExists ==
  \/ /\ driven = "UserService"
     /\ \E id \in OwnUserIDs :
          RepoCall("Exists", id, NoError, [found |-> UserRepo_Exists(users, id)],
                   users, clock)
  \/ /\ driven = "ProductService"
     /\ \E id \in OwnProductIDs :
          RepoCall("Exists", id, NoError, [found |-> ProductRepo_Exists(products, id)],
                   products, clock)

RepoFindByID ==
  \/ /\ driven = "UserService"
     /\ \E id \in OwnUserIDs :
          RepoCall("FindByID", id, NoError, UserRepo_FindByID(users, id), users, clock)
  \/ /\ driven = "ProductService"
     /\ \E id \in OwnProductIDs :
          RepoCall("FindByID", id, NoError, ProductRepo_FindByID(products, id),
                   products, clock)

NextRepo ==
  \/ RepoSave
  \/ RepoDelete
  \/ RepoExists
  \/ RepoFindByID
  \/ Return

SpecRepo == InitRepo /\ [][NextRepo]_vars

(***************************************************************************)
(* The bulk operations of UserManagementService and                        *)
(* ProductManagementService: one loop over the items, one service call for *)
(* each item.                                                              *)
(***************************************************************************)
\* []CreateUserRequest
CreateUserRequests ==
  {[ID |-> <<"u","0","1">>, Email |-> <<"a","@","b",".","c","o">>, Name |-> <<"A","l">>],
   [ID |-> <<"u","0","2">>, Email |-> <<"c","@","d",".","i","o">>, Name |-> <<"A","l">>],
   [ID |-> <<"u","0","2">>, Email |-> <<"a","@","b",".","c","o">>, Name |-> <<>>]}

\* []CreateProductRequest
CreateProductRequests ==
  {[ID |-> <<"p","0","1">>, Name |-> <<"P","e","n">>, Description |-> <<"i","n","k">>,
    Category |-> <<"o","f","f","i","c","e">>, Price |-> 5, Stock |-> GoInt(10)],
   [ID |-> <<"p","0","2">>, Name |-> <<"P","e","n">>, Description |-> <<"i","n","k">>,
    Category |-> <<"o","f","f","i","c","e">>, Price |-> -1, Stock |-> GoInt(10)]}

\* []StockUpdateRequest
StockUpdateRequests ==
  [ProductID : {<<"p","0","1">>, <<"p","0","2">>}, NewStock : {GoInt(5), GoInt(-1)}]

BulkOps ==
  {"BulkCreateUsers", "BulkDeactivateUsers", "BulkCreateProducts", "BulkUpdateStock"}

\* the elements a caller puts in the slice passed to the bulk operation
BulkElements(op) ==
  CASE op = "BulkCreateUsers" -> CreateUserRequests
    [] op = "BulkDeactivateUsers" -> {<<"u","0","1">>, <<"u","0","2">>}
    [] op = "BulkCreateProducts" -> CreateProductRequests
    [] op = "BulkUpdateStock" -> StockUpdateRequests

\* the slices of at most MaxItems elements
BulkItems(op) ==
  UNION {[1..n -> BulkElements(op)] : n \in 0..MaxItems}

\* the call of the service the loop makes for one item
BulkServiceCall(op, item, store, clk) ==
  CASE op = "BulkCreateUsers" ->
         UserService_CreateUser(store, clk, item.ID, item.Email, item.Name)
    [] op = "BulkDeactivateUsers" -> {UserService_DeactivateUser(store, clk, item)}
    [] op = "BulkCreateProducts" ->
         {ProductService_CreateProduct(store, clk, item.ID, item.Name,
                                       item.Description, item.Category,
                                       item.Price, item.Stock)}
    [] op = "BulkUpdateStock" ->
         {ProductService_UpdateStock(store, clk, item.ProductID, item.NewStock)}

\* &BulkOperationError{Index: i, Message: err.Error()}
BulkOperationError(i, err) == [Index |-> i, Message |-> err]

InitBulk ==
  /\ users = EmptyStore
  /\ products = EmptyStore
  /\ clock = 0
  /\ last = NoCall
  /\ driven \in {"UserService", "ProductService"}
  /\ handlers = [t \in EventTypes |-> NilSlice]
  /\ arrays = [t \in EventTypes |-> <<>>]
  /\ pub = [state |-> "idle"]
  /\ mutex = Unlocked
  /\ thr = <<>>
  /\ mem = NoMemory
  /\ bulk = NoBulk

\* the bulk operation is called with a slice: both result slices are nil
BulkBegin ==
  /\ bulk.state \in {"idle", "returned"}
  /\ clock < MaxClock
  /\ \E op \in BulkOps :
       /\ driven = IF op \in {"BulkCreateUsers", "BulkDeactivateUsers"}
                   THEN "UserService" ELSE "ProductService"
       /\ \E items \in BulkItems(op) :
            bulk' = [state |-> "loop", op |-> op, items |-> items, i |-> 0,
                     entities |-> <<>>, errors |-> <<>>]
  /\ UNCHANGED <<serviceVars, busVars, concVars, mem>>

\* one iteration of the loop that gives up the rest of the items on an error
BulkItem_abort ==
  /\ bulk.state = "loop"
  /\ bulk.i < Len(bulk.items)
  /\ \E o \in BulkServiceCall(bulk.op, bulk.items[bulk.i + 1],
                              IF driven = "UserService" THEN users ELSE products,
                              clock) :
       /\ o.clk <= MaxClock
       /\ clock' = o.clk
       /\ IF driven = "UserService"
          THEN users' = o.store /\ UNCHANGED products
          ELSE products' = o.store /\ UNCHANGED users
       /\ bulk' = IF o.err # NoError
                  THEN [bulk EXCEPT !.i = Len(bulk.items),
                          !.errors = Append(@, BulkOperationError(bulk.i, o.err))]
                  ELSE [bulk EXCEPT !.i = @ + 1, !.entities = Append(@, o.ret)]
  /\ UNCHANGED <<last, driven, busVars, concVars, mem>>

\* one iteration of the loop: the service call for items[i]
BulkItem ==
  /\ bulk.state = "loop"
  /\ bulk.i < Len(bulk.items)
  /\ \E o \in BulkServiceCall(bulk.op, bulk.items[bulk.i + 1],
                              IF driven = "UserService" THEN users ELSE products,
                              clock) :
       /\ o.clk <= MaxClock
       /\ clock' = o.clk
       /\ IF driven = "UserService"
          THEN users' = o.store /\ UNCHANGED products
          ELSE products' = o.store /\ UNCHANGED users
       /\ bulk' = IF o.err # NoError
                  THEN [bulk EXCEPT !.i = @ + 1,
                          !.errors = Append(@, BulkOperationError(bulk.i, o.err))]
                  ELSE [bulk EXCEPT !.i = @ + 1, !.entities = Append(@, o.ret)]
  /\ UNCHANGED <<last, driven, busVars, concVars, mem>>

\* the loop is over: the operation returns its two slices
BulkReturn ==
  /\ bulk.state = "loop"
  /\ bulk.i = Len(bulk.items)
  /\ bulk' = [bulk EXCEPT !.state = "returned"]
  /\ UNCHANGED <<serviceVars, busVars, concVars, mem>>

NextBulk ==
  \/ BulkBegin
  \/ BulkItem
  \/ BulkReturn

SpecBulk == InitBulk /\ [][NextBulk]_vars

(***************************************************************************)
(* The filtered list operations called by one caller: a catalog of a few   *)
(* products (or a few users) is built and changed, and listed in between.  *)
(***************************************************************************)
ListProductIDs == {<<"p","0","1">>, <<"p","0","2">>, <<"p","0","3">>}

\* the category, price and stock with which each product of the catalog is
\* created
ListProductArgs(id) ==
  CASE id = <<"p","0","1">> ->
         [category |-> <<"o","f","f","i","c","e">>, price |-> 5, stock |-> GoInt(10)]
    [] id = <<"p","0","2">> ->
         [category |-> <<"h","o","m","e">>, price |-> 20, stock |-> GoInt(10)]
    [] id = <<"p","0","3">> ->
         [category |-> <<"o","f","f","i","c","e">>, price |-> 20, stock |-> GoInt(0)]

ListUserIDs == {<<"u","0","1">>, <<"u","0","2">>, <<"u","0","3">>}

\* one email for each user
ListEmailOf(id) == id \o <<"@","d",".","i","o">>

ListCategories == {<<"o","f","f","i","c","e">>, <<"h","o","m","e">>}

\* minPrice and maxPrice of ListProductsByPriceRange
PriceRanges == {<<0, 10>>, <<5, 20>>, <<20, 5>>}

InitList ==
  /\ users = EmptyStore
  /\ products = EmptyStore
  /\ clock = 0
  /\ last = NoCall
  /\ driven \in {"UserService", "ProductService"}
  /\ handlers = [t \in EventTypes |-> NilSlice]
  /\ arrays = [t \in EventTypes |-> <<>>]
  /\ pub = [state |-> "idle"]
  /\ mutex = Unlocked
  /\ thr = <<>>
  /\ mem = NoMemory
  /\ bulk = NoBulk

\* a list operation returned r: the store is left as it is
ListCall(op, args, r) ==
  /\ last = NoCall
  /\ last' = Call(op, args,
                  Rejected(NoError, IF driven = "UserService" THEN users ELSE products,
                           clock),
                  r.list, r.panic)
  /\ UNCHANGED <<users, products, clock, driven, busVars, concVars, mem, bulk>>

ListCreateUser ==
  \E id \in ListUserIDs :
    \E o \in UserService_CreateUser(users, clock, id, ListEmailOf(id), <<"A","l">>) :
      UserCall("CreateUser",
               [id |-> id, email |-> ListEmailOf(id), name |-> <<"A","l">>], o)

ListToggleUser ==
  \E id \in ListUserIDs :
    \/ UserCall("DeactivateUser", [id |-> id],
                UserService_DeactivateUser(users, clock, id))
    \/ UserCall("ActivateUser", [id |-> id],
                UserService_ActivateUser(users, clock, id))

ListActiveUsers ==
  /\ driven = "UserService"
  /\ last = NoCall
  /\ \E limit \in Limits, offset \in Limits :
    \E r \in UserRepo_FindActive(users, limit, offset) :
      /\ ListCall("ListActiveUsers", [limit |-> limit, offset |-> offset], r)

ListCreateProduct ==
  \E id \in ListProductIDs :
    \E a \in {ListProductArgs(id)} :
    ProductCall("CreateProduct",
                [id |-> id, name |-> <<"P","e","n">>, description |-> <<"i","n","k">>,
                 category |-> a.category, price |-> a.price, stock |-> a.stock],
                ProductService_CreateProduct(products, clock, id, <<"P","e","n">>,
                                             <<"i","n","k">>, a.category, a.price,
                                             a.stock))

ListToggleProduct ==
  \E id \in ListProductIDs :
    \/ ProductCall("DeactivateProduct", [id |-> id],
                   ProductService_DeactivateProduct(products, clock, id))
    \/ ProductCall("ActivateProduct", [id |-> id],
                   ProductService_ActivateProduct(products, clock, id))

\* the stock of a product is sold, or bought again
ListMoveStock ==
  \E id \in ListProductIDs :
    \/ ProductCall("RemoveStock", [id |-> id, quantity |-> GoInt(10)],
                   ProductService_RemoveStock(products, clock, id, GoInt(10)))
    \/ ProductCall("AddStock", [id |-> id, quantity |-> GoInt(10)],
                   ProductService_AddStock(products, clock, id, GoInt(10)))

ListAvailableProducts ==
  /\ driven = "ProductService"
  /\ last = NoCall
  /\ \E limit \in Limits, offset \in Limits :
    \E r \in ProductRepo_FindAvailable(products, limit, offset) :
      /\ ListCall("ListAvailableProducts", [limit |-> limit, offset |-> offset], r)

ListProductsByCategory ==
  /\ driven = "ProductService"
  /\ last = NoCall
  /\ \E category \in ListCategories, limit \in Limits, offset \in Limits :
    \E r \in ProductRepo_FindByCategory(products, category, limit, offset) :
      /\ ListCall("ListProductsByCategory",
                  [category |-> category, limit |-> limit, offset |-> offset], r)

ListProductsByPriceRange ==
  /\ driven = "ProductService"
  /\ last = NoCall
  /\ \E range \in PriceRanges, limit \in Limits, offset \in Limits :
    \E r \in ProductRepo_FindByPriceRange(products, range[1], range[2], limit, offset) :
      /\ ListCall("ListProductsByPriceRange",
                  [minPrice |-> range[1], maxPrice |-> range[2],
                   limit |-> limit, offset |-> offset], r)

NextList ==
  \/ ListCreateUser
  \/ ListToggleUser
  \/ ListActiveUsers
  \/ ListCreateProduct
  \/ ListToggleProduct
  \/ ListMoveStock
  \/ ListAvailableProducts
  \/ ListProductsByCategory
  \/ ListProductsByPriceRange
  \/ Return

SpecList == InitList /\ [][NextList]_vars

(***************************************************************************)
(* The validators called on their own, with arguments of which any number  *)
(* break a rule.                                                           *)
(***************************************************************************)
\* the arguments of ValidateCreateUser
ValidatedUsers ==
  [id : {<<"u","0","1">>, <<"a","b">>, <<>>},
   email : {<<"a","@","b",".","c","o">>, <<"b","a","d">>, <<>>},
   name : {<<"A","l">>, <<"A">>, <<>>, <<"\f","0xC2","0xA0">>}]

\* the arguments of ValidateCreateProduct
ValidatedProducts ==
  [id : {<<"p","0","1">>, <<"p","1">>, <<>>},
   name : {<<"P","e","n">>, <<>>},
   description : {<<"i","n","k">>, [i \in 1..1001 |-> "x"]},
   category : {<<"o","f","f","i","c","e">>, <<" "," ">>},
   price : {5, -1, 1000001},
   stock : {GoInt(10), GoInt(-1)}]

InitValidate ==
  /\ users = EmptyStore
  /\ products = EmptyStore
  /\ clock = 0
  /\ last = NoCall
  /\ driven \in {"UserService", "ProductService"}
  /\ handlers = [t \in EventTypes |-> NilSlice]
  /\ arrays = [t \in EventTypes |-> <<>>]
  /\ pub = [state |-> "idle"]
  /\ mutex = Unlocked
  /\ thr = <<>>
  /\ mem = NoMemory
  /\ bulk = NoBulk

\* the validator returned err
Validated(op, args, err) ==
  /\ last' = Call(op, args, [err |-> err, ret |-> Nil, events |-> <<>>], <<>>, FALSE)
  /\ UNCHANGED <<users, products, clock, driven, busVars, concVars, mem, bulk>>

ValidateUser ==
  /\ driven = "UserService"
  /\ last = NoCall
  /\ \E a \in ValidatedUsers :
       Validated("ValidateCreateUser", a, ValidateCreateUser(a.id, a.email, a.name))

ValidateProduct ==
  /\ driven = "ProductService"
  /\ last = NoCall
  /\ \E a \in ValidatedProducts :
       Validated("ValidateCreateProduct", a,
                 ValidateCreateProduct(a.id, a.name, a.description, a.category,
                                       a.price, a.stock))

NextValidate ==
  \/ ValidateUser
  \/ ValidateProduct
  \/ Return

SpecValidate == InitValidate /\ [][NextValidate]_vars

(***************************************************************************)
(* Updates of several fields at once, through the service and through the  *)
(* processor called on its own: the processor is an exported type, and     *)
(* only a direct caller can hand it a value that an entity mutator         *)
(* refuses, since the service validates first.                             *)
(***************************************************************************)
UpdateUserIDs == {<<"u","0","1">>, <<"u","0","2">>}

\* the second product is never created
UpdateProductIDs == {<<"p","0","1">>, <<"p","0","2">>}

SeededProductIDs == {<<"p","0","1">>}

\* email, name *string: nothing, a free email, the email of a stored user,
\* and values the validator or the mutator refuses
UserUpdates ==
  [email : {Nil, <<"n","@","d",".","i","o">>, <<"b","a","d">>, <<>>,
            ListEmailOf(<<"u","0","1">>), ListEmailOf(<<"u","0","2">>)},
   name : {Nil, <<"B","o">>, <<>>}]

\* name, description, category *string, price *float64, stock *int
ProductUpdates ==
  [name : {Nil, <<"C","a","p">>, <<>>},
   description : {Nil, <<"r","e","d">>},
   category : {Nil, <<"h","o","m","e">>},
   price : {NilPtr, Ptr(7), Ptr(-1)},
   stock : {NilPtr, Ptr(GoInt(3)), Ptr(GoInt(-1))}]

InitUpdate ==
  /\ users = EmptyStore
  /\ products = EmptyStore
  /\ clock = 0
  /\ last = NoCall
  /\ driven \in {"UserService", "UserProcessor", "ProductService", "ProductProcessor"}
  /\ handlers = [t \in EventTypes |-> NilSlice]
  /\ arrays = [t \in EventTypes |-> <<>>]
  /\ pub = [state |-> "idle"]
  /\ mutex = Unlocked
  /\ thr = <<>>
  /\ mem = NoMemory
  /\ bulk = NoBulk

\* the outcome of a processor called without the service: nothing is published
Direct(o) ==
  [err |-> o.err, ret |-> o.ret, store |-> o.store, clk |-> o.clk, events |-> <<>>]

\* a call on the user side with outcome o
UserSideCall(op, args, o) ==
  /\ o.clk <= MaxClock
  /\ users' = o.store
  /\ clock' = o.clk
  /\ last' = Call(op, args, o, <<>>, FALSE)
  /\ UNCHANGED <<products, driven, busVars, concVars, mem, bulk>>

\* a call on the product side with outcome o
ProductSideCall(op, args, o) ==
  /\ o.clk <= MaxClock
  /\ products' = o.store
  /\ clock' = o.clk
  /\ last' = Call(op, args, o, <<>>, FALSE)
  /\ UNCHANGED <<users, driven, busVars, concVars, mem, bulk>>

\* the users that the updates find
SeedUser ==
  /\ driven \in {"UserService", "UserProcessor"}
  /\ last = NoCall
  /\ \E id \in UpdateUserIDs :
       \E o \in UserService_CreateUser(users, clock, id, ListEmailOf(id), <<"A","l">>) :
         UserSideCall("CreateUser",
                      [id |-> id, email |-> ListEmailOf(id), name |-> <<"A","l">>], o)

\* the products that the updates find
SeedProduct ==
  /\ driven \in {"ProductService", "ProductProcessor"}
  /\ last = NoCall
  /\ \E id \in SeededProductIDs :
       ProductSideCall("CreateProduct",
                       [id |-> id, name |-> <<"P","e","n">>,
                        description |-> <<"i","n","k">>,
                        category |-> <<"o","f","f","i","c","e">>,
                        price |-> 5, stock |-> GoInt(10)],
                       ProductService_CreateProduct(products, clock, id,
                           <<"P","e","n">>, <<"i","n","k">>,
                           <<"o","f","f","i","c","e">>, 5, GoInt(10)))

ServiceUpdateUser ==
  /\ driven = "UserService"
  /\ last = NoCall
  /\ \E id \in UpdateUserIDs, a \in UserUpdates :
       \E o \in UserService_UpdateUser(users, clock, id, a.email, a.name) :
         UserSideCall("UpdateUser", [id |-> id, email |-> a.email, name |-> a.name], o)

ProcessorUpdateUser ==
  /\ driven = "UserProcessor"
  /\ last = NoCall
  /\ \E id \in UpdateUserIDs, a \in UserUpdates :
       \E o \in UserProcessor_UpdateUser(users, clock, id, a.email, a.name) :
         UserSideCall("UpdateUser", [id |-> id, email |-> a.email, name |-> a.name],
                      Direct(o))

ServiceUpdateProduct ==
  /\ driven = "ProductService"
  /\ last = NoCall
  /\ \E id \in UpdateProductIDs, a \in ProductUpdates :
       ProductSideCall("UpdateProduct",
                       [id |-> id, name |-> a.name, description |-> a.description,
                        category |-> a.category, price |-> a.price, stock |-> a.stock],
                       ProductService_UpdateProduct(products, clock, id, a.name,
                           a.description, a.category, a.price, a.stock))

ProcessorUpdateProduct ==
  /\ driven = "ProductProcessor"
  /\ last = NoCall
  /\ \E id \in UpdateProductIDs, a \in ProductUpdates :
       ProductSideCall("UpdateProduct",
                       [id |-> id, name |-> a.name, description |-> a.description,
                        category |-> a.category, price |-> a.price, stock |-> a.stock],
                       Direct(ProductProcessor_UpdateProduct(products, clock, id,
                           a.name, a.description, a.category, a.price, a.stock)))

NextUpdate ==
  \/ SeedUser
  \/ SeedProduct
  \/ ServiceUpdateUser
  \/ ProcessorUpdateUser
  \/ ServiceUpdateProduct
  \/ ProcessorUpdateProduct
  \/ Return

SpecUpdate == InitUpdate /\ [][NextUpdate]_vars

(***************************************************************************)
(* The event bus called by one goroutine, with handlers of the type        *)
(* EventHandlerFunc next to handlers that are pointers: Unsubscribe        *)
(* compares interface values, and the comparison of two values whose       *)
(* dynamic type is a func type panics.  Each Unsubscribe call is recorded  *)
(* in last until the caller goes on.                                       *)
(***************************************************************************)
\* the handlers of this caller: one pointer and two funcs
UnsubHandlers == {"HandlerA"} \cup FuncHandlers

InitUnsub ==
  /\ users = EmptyStore
  /\ products = EmptyStore
  /\ clock = 0
  /\ last = [op |-> "none"]
  /\ driven = "Subscriber"
  /\ handlers = [t \in EventTypes |-> NilSlice]
  /\ arrays = [t \in EventTypes |-> <<>>]
  /\ pub = [state |-> "idle"]
  /\ mutex = Unlocked
  /\ thr = <<>>
  /\ mem = NoMemory
  /\ bulk = NoBulk

SubscribeHandler ==
  /\ last.op = "none"
  /\ pub.state # "dispatch"
  /\ \E eventType \in EventTypes, handler \in UnsubHandlers :
       SubscribeTo(eventType, handler)

\* Lock; the range loop; the deferred Unlock, which also runs when the
\* comparison panics
UnsubscribeHandler ==
  /\ last.op = "none"
  /\ pub.state # "dispatch"
  /\ \E eventType \in EventTypes, handler \in UnsubHandlers :
       LET r == UnsubscribeLoop(arrays[eventType], handlers[eventType], handler)
       IN  /\ arrays' = [arrays EXCEPT ![eventType] = r.heap]
           /\ handlers' = [handlers EXCEPT ![eventType] = r.slice]
           /\ last' = [op |-> "Unsubscribe", type |-> eventType,
                       handler |-> handler, panic |-> r.panic,
                       before |-> Elements(arrays[eventType], handlers[eventType])]
  /\ UNCHANGED <<users, products, clock, driven, pub, concVars, mem, bulk>>

\* the caller goes on after the Unsubscribe call
UnsubscribeDone ==
  /\ last.op = "Unsubscribe"
  /\ last' = [op |-> "none"]
  /\ UNCHANGED <<users, products, clock, driven, busVars, concVars, mem, bulk>>

NextUnsub ==
  \/ SubscribeHandler
  \/ UnsubscribeHandler
  \/ UnsubscribeDone
  \/ PublishBegin
  \/ PublishHandle
  \/ PublishReturn

SpecUnsub == InitUnsub /\ [][NextUnsub]_vars

(***************************************************************************)
(* A user is created, deleted from the repository and created again with   *)
(* the identifier and the email it had.                                    *)
(***************************************************************************)
InitRecreate ==
  /\ users = EmptyStore
  /\ products = EmptyStore
  /\ clock = 0
  /\ last = NoCall
  /\ driven = "UserService"
  /\ handlers = [t \in EventTypes |-> NilSlice]
  /\ arrays = [t \in EventTypes |-> <<>>]
  /\ pub = [state |-> "idle"]
  /\ mutex = Unlocked
  /\ thr = <<>>
  /\ mem = NoMemory
  /\ bulk = NoBulk

\* Delete that keeps the record and marks it inactive
DeleteUser_soft ==
  /\ driven = "UserService"
  /\ \E id \in ListUserIDs :
       IF id \in DOMAIN users
       THEN RepoCall("Delete", id, NoError, Nil,
                     [users EXCEPT ![id].IsActive = FALSE], clock)
       ELSE RepoCall("Delete", id, "user not found", Nil, users, clock)

\* userRepo.Delete(ctx, id)
DeleteUser ==
  /\ driven = "UserService"
  /\ \E id \in ListUserIDs :
       LET d == UserRepo_Delete(users, id)
       IN  RepoCall("Delete", id, d.err, Nil, d.store, clock)

\* CreateUser with the id and the email of the user that the Delete call
\* which just returned has removed
CreateUserAgain ==
  /\ driven = "UserService"
  /\ last.op = "Delete"
  /\ last.err = NoError
  /\ LET old == last.preUsers[last.args.id]
     IN  \E o \in UserService_CreateUser(users, clock, old.ID, old.Email, <<"B","o">>) :
           /\ o.clk <= MaxClock
           /\ users' = o.store
           /\ clock' = o.clk
           /\ last' = Call("CreateUser",
                           [id |-> old.ID, email |-> old.Email, name |-> <<"B","o">>,
                            deleted |-> old], o, <<>>, FALSE)
  /\ UNCHANGED <<products, driven, busVars, concVars, mem, bulk>>

NextRecreate ==
  \/ ListCreateUser
  \/ ListToggleUser
  \/ DeleteUser
  \/ CreateUserAgain
  \/ Return

SpecRecreate == InitRecreate /\ [][NextRecreate]_vars

(***************************************************************************)
(* Goroutines that change the stock of one stored product through the      *)
(* product service.  A call is a sequence of repository methods, each of   *)
(* which runs under the mutex of the repository and is one step here, and  *)
(* between FindByID and Save the mutator of the entity, which reads the    *)
(* clock and is a step of its own; no mutex is held between the steps.     *)
(***************************************************************************)
StockProductID == <<"p","0","1">>

\* the product created before the goroutines start
StockedProduct ==
  NewProduct(StockProductID, <<"P","e","n">>, <<"i","n","k">>,
             <<"o","f","f","i","c","e">>, 5, GoInt(10), 0)

\* the calls of the goroutines: the operation and its quantity or new stock
StockCalls ==
  {[op |-> "AddStock", q |-> GoInt(5)], [op |-> "RemoveStock", q |-> GoInt(3)],
   [op |-> "RemoveStock", q |-> GoInt(30)], [op |-> "UpdateStock", q |-> GoInt(20)],
   [op |-> "UpdateStock", q |-> GoInt(-1)]}

InitStock ==
  /\ users = EmptyStore
  /\ products = ProductRepo_Save(EmptyStore, StockedProduct.ret)
  /\ clock = StockedProduct.clk
  /\ last = [op |-> "none"]
  /\ driven = "ProductService"
  /\ handlers = [t \in EventTypes |-> NilSlice]
  /\ arrays = [t \in EventTypes |-> <<>>]
  /\ pub = [state |-> "idle"]
  /\ mutex = Unlocked
  /\ thr = [t \in Threads |-> Idle]
  /\ mem = NoMemory
  /\ bulk = NoBulk

\* the call of goroutine t has returned err
StockReturned(g, err) ==
  [pc |-> "done", op |-> g.op, id |-> g.id, q |-> g.q, err |-> err]

\* ProductService.UpdateStock, AddStock or RemoveStock up to its first
\* repository call; UpdateStock validates the new stock first
GoStock(t) ==
  /\ thr[t] = Idle
  /\ \E c \in StockCalls :
       LET g == [pc |-> "GetProduct", op |-> c.op, id |-> StockProductID, q |-> c.q]
           err == IF c.op = "UpdateStock"
                  THEN ValidateUpdateProduct(g.id, Nil, Nil, Nil, NilPtr, Ptr(c.q))
                  ELSE NoError
       IN  thr' = [thr EXCEPT ![t] = IF err # NoError THEN StockReturned(g, err)
                                     ELSE g]
  /\ UNCHANGED <<serviceVars, busVars, mutex, mem, bulk>>

\* processor.GetProduct: FindByID, of whose copy the service keeps the stock
StockGetProduct(t) ==
  /\ thr[t].pc = "GetProduct"
  /\ LET g == thr[t]
         o == ProductProcessor_GetProduct(products, clock, g.id)
     IN  thr' = [thr EXCEPT ![t] =
           IF o.err # NoError THEN StockReturned(g, o.err)
           ELSE [pc |-> "FindByID", op |-> g.op, id |-> g.id, q |-> g.q,
                 oldStock |-> o.ret.Stock]]
  /\ UNCHANGED <<serviceVars, busVars, mutex, mem, bulk>>

\* the processor's FindByID: the copy of the stored product, read under the
\* read lock that FindByID releases as it returns
StockFindByID(t) ==
  /\ thr[t].pc = "FindByID"
  /\ LET g == thr[t]
         product == ProductRepo_FindByID(products, g.id)
     IN  thr' = [thr EXCEPT ![t] =
           IF product = Nil THEN StockReturned(g, "product not found")
           ELSE [pc |-> "Mutate", op |-> g.op, id |-> g.id, q |-> g.q,
                 oldStock |-> g.oldStock, found |-> product.Stock,
                 ent |-> product]]
  /\ UNCHANGED <<serviceVars, busVars, mutex, mem, bulk>>

\* product.AddStock, RemoveStock or UpdateStock on the copy that FindByID
\* returned: it holds no lock and reads the clock when it is called
StockMutate(t) ==
  /\ thr[t].pc = "Mutate"
  /\ LET g == thr[t]
         m == CASE g.op = "AddStock" -> Product_AddStock(g.ent, g.q, clock)
                [] g.op = "RemoveStock" -> Product_RemoveStock(g.ent, g.q, clock)
                [] g.op = "UpdateStock" -> Product_UpdateStock(g.ent, g.q, clock)
     IN  /\ clock' = m.clk
         /\ thr' = [thr EXCEPT ![t] =
              IF m.err # NoError THEN StockReturned(g, m.err)
              ELSE [pc |-> "Save", op |-> g.op, id |-> g.id, q |-> g.q,
                    oldStock |-> g.oldStock, found |-> g.found,
                    ent |-> m.ret]]
  /\ UNCHANGED <<users, products, last, driven, busVars, mutex, mem, bulk>>

\* the processor's Save, after which the service publishes the stock event
\* and returns; stored is the stock that the Save replaced
StockSave(t) ==
  /\ thr[t].pc = "Save"
  /\ LET g == thr[t]
     IN  /\ products' = ProductRepo_Save(products, g.ent)
         /\ thr' = [thr EXCEPT ![t] =
              [pc |-> "done", op |-> g.op, id |-> g.id, q |-> g.q,
               err |-> NoError, ret |-> g.ent,
               stored |-> products[g.id].Stock,
               event |-> PublishStockUpdated(g.ent, g.oldStock).event]]
  /\ UNCHANGED <<users, clock, last, driven, busVars, mutex, mem, bulk>>

NextStock ==
  \E t \in Threads :
    \/ GoStock(t)
    \/ StockGetProduct(t)
    \/ StockFindByID(t)
    \/ StockMutate(t)
    \/ StockSave(t)

SpecStock == InitStock /\ [][NextStock]_vars

(***************************************************************************)
(* Handlers that call the bus.  One goroutine calls Subscribe, Unsubscribe *)
(* and Publish; a handler that Publish has called may itself call one of   *)
(* the three on the same bus before it returns.  thr[1] is the stack of    *)
(* the bus calls of the goroutine, the innermost last, and mutex.bus is    *)
(* the mutex of the bus.  A handler republishes only below MaxDepth nested *)
(* Publish calls, so that every handler terminates.                        *)
(***************************************************************************)
\* largest number of Publish calls nested in one another
MaxDepth == 2

Stack == thr[1]

Top == Stack[Len(Stack)]

\* the stack with its innermost frame replaced by f
Replaced(f) == [thr EXCEPT ![1] = [Stack EXCEPT ![Len(Stack)] = f]]

\* the stack after the innermost call has returned
Popped == [thr EXCEPT ![1] = SubSeq(Stack, 1, Len(Stack) - 1)]

\* the number of Publish calls on the stack
Depth == Cardinality({k \in 1..Len(Stack) : Stack[k].fn = "Publish"})

\* the event type whose handlers call the bus
ReentrantTypes == {"user.created"}

\* the first frame of a call of the bus
BusFrames ==
  {[fn |-> "Subscribe", pc |-> "Lock", type |-> t, handler |-> h] :
     t \in {u \in ReentrantTypes : handlers[u].len < MaxHandlers},
     h \in EventHandlers}
  \cup {[fn |-> "Unsubscribe", pc |-> "Lock", type |-> t, handler |-> h] :
          t \in ReentrantTypes, h \in EventHandlers}
  \cup {[fn |-> "Publish", pc |-> "RLock", type |-> t, snap |-> NilSlice,
         i |-> 0, called |-> FALSE] :
          t \in {u \in ReentrantTypes : Depth < MaxDepth}}

InitReentrant ==
  /\ users = EmptyStore
  /\ products = EmptyStore
  /\ clock = 0
  /\ last = [op |-> "none"]
  /\ driven = "EventBus"
  /\ handlers = [t \in EventTypes |-> NilSlice]
  /\ arrays = [t \in EventTypes |-> <<>>]
  /\ pub = [state |-> "idle"]
  /\ mutex = [bus |-> [writer |-> FALSE, readers |-> 0]]
  /\ thr = <<<<>>>>
  /\ mem = NoMemory
  /\ bulk = NoBulk

\* the goroutine calls the bus
CallerCalls ==
  /\ Stack = <<>>
  /\ \E f \in BusFrames : thr' = [thr EXCEPT ![1] = <<f>>]
  /\ UNCHANGED <<serviceVars, busVars, mutex, mem, bulk>>

\* the handler that the innermost Publish is running calls the bus
HandlerCalls ==
  /\ Stack # <<>>
  /\ Top.fn = "Publish"
  /\ Top.pc = "Loop"
  /\ Top.i < Top.snap.len
  /\ ~Top.called
  /\ \E f \in BusFrames :
       thr' = [thr EXCEPT ![1] =
                 Append([Stack EXCEPT ![Len(Stack)].called = TRUE], f)]
  /\ UNCHANGED <<serviceVars, busVars, mutex, mem, bulk>>

\* b.mutex.Lock() of Subscribe and Unsubscribe
BusLock ==
  /\ Stack # <<>>
  /\ Top.pc = "Lock"
  /\ CanLock(mutex.bus)
  /\ mutex' = [mutex EXCEPT !.bus = Lock(@)]
  /\ thr' = Replaced([Top EXCEPT !.pc = "Body"])
  /\ UNCHANGED <<serviceVars, busVars, mem, bulk>>

\* the append of Subscribe and the deferred Unlock
SubscribeBody ==
  /\ Stack # <<>>
  /\ Top.fn = "Subscribe"
  /\ Top.pc = "Body"
  /\ LET a == SliceAppend(arrays[Top.type], handlers[Top.type], Top.handler)
     IN  /\ arrays' = [arrays EXCEPT ![Top.type] = a.heap]
         /\ handlers' = [handlers EXCEPT ![Top.type] = a.slice]
  /\ mutex' = [mutex EXCEPT !.bus = Unlock(@)]
  /\ thr' = Popped
  /\ UNCHANGED <<serviceVars, pub, mem, bulk>>

\* the range loop of Unsubscribe and the deferred Unlock
UnsubscribeBody ==
  /\ Stack # <<>>
  /\ Top.fn = "Unsubscribe"
  /\ Top.pc = "Body"
  /\ LET r == UnsubscribeLoop(arrays[Top.type], handlers[Top.type], Top.handler)
     IN  /\ arrays' = [arrays EXCEPT ![Top.type] = r.heap]
         /\ handlers' = [handlers EXCEPT ![Top.type] = r.slice]
  /\ mutex' = [mutex EXCEPT !.bus = Unlock(@)]
  /\ thr' = Popped
  /\ UNCHANGED <<serviceVars, pub, mem, bulk>>

\* b.mutex.RLock() of Publish
PublishRLock ==
  /\ Stack # <<>>
  /\ Top.pc = "RLock"
  /\ CanRLock(mutex.bus)
  /\ mutex' = [mutex EXCEPT !.bus = RLock(@)]
  /\ thr' = Replaced([Top EXCEPT !.pc = "Copy"])
  /\ UNCHANGED <<serviceVars, busVars, mem, bulk>>

\* Publish that keeps the read lock while it calls the handlers
PublishCopy_holdLock ==
  /\ Stack # <<>>
  /\ Top.pc = "Copy"
  /\ thr' = Replaced([Top EXCEPT !.pc = "Loop", !.snap = handlers[Top.type]])
  /\ UNCHANGED <<serviceVars, busVars, mutex, mem, bulk>>

\* handlers := b.handlers[eventType]; b.mutex.RUnlock()
PublishCopy ==
  /\ Stack # <<>>
  /\ Top.pc = "Copy"
  /\ mutex' = [mutex EXCEPT !.bus = RUnlock(@)]
  /\ thr' = Replaced([Top EXCEPT !.pc = "Loop", !.snap = handlers[Top.type]])
  /\ UNCHANGED <<serviceVars, busVars, mem, bulk>>

\* the handler returns and the loop goes to the next element
HandlerReturns ==
  /\ Stack # <<>>
  /\ Top.fn = "Publish"
  /\ Top.pc = "Loop"
  /\ Top.i < Top.snap.len
  /\ thr' = Replaced([Top EXCEPT !.i = Top.i + 1, !.called = FALSE])
  /\ UNCHANGED <<serviceVars, busVars, mutex, mem, bulk>>

\* the end of the loop: return nil
PublishDone ==
  /\ Stack # <<>>
  /\ Top.fn = "Publish"
  /\ Top.pc = "Loop"
  /\ Top.i >= Top.snap.len
  /\ thr' = Popped
  /\ UNCHANGED <<serviceVars, busVars, mutex, mem, bulk>>

\* the steps of a call that is running
BusStep ==
  \/ BusLock
  \/ SubscribeBody
  \/ UnsubscribeBody
  \/ PublishRLock
  \/ PublishCopy
  \/ HandlerReturns
  \/ PublishDone

NextReentrant ==
  \/ CallerCalls
  \/ HandlerCalls
  \/ BusStep

SpecReentrant == InitReentrant /\ [][NextReentrant]_vars

\* the goroutine runs: a call that can take a step takes it
SpecReentrantFair == SpecReentrant /\ WF_vars(BusStep)

(***************************************************************************)
(* Properties of the sequential services                                   *)
(***************************************************************************)
Min(a, b) == IF a < b THEN a ELSE b
Max(a, b) == IF a > b THEN a ELSE b

\* min(limit, max(0, n - offset)) for ints limit >= 0 and offset >= 0
PageSize(limit, offset, n) ==
  IF IntLeq(GoInt(n), offset) THEN 0
  ELSE LET left == n - Val(offset)
       IN  IF IntLess(limit, GoInt(left)) THEN Val(limit) ELSE left

\* the inputs that satisfy the field rules of section 3 of the specification
ValidUserIDs == {<<"u","0","1">>, <<"u","0","2">>}
ValidEmails == {<<"a","@","b",".","c","o">>, <<"c","@","d",".","i","o">>}
ValidUserNames == {<<"A","l">>}
ValidProductIDs == {<<"p","0","1">>, <<"p","0","2">>}

EmailUsed(store, email) == \E k \in DOMAIN store : store[k].Email = email

\* the last call was a CreateUser with valid arguments whose id and email
\* were not in the store
FreshValidCreateUser ==
  /\ last.op = "CreateUser"
  /\ last.args.id \in ValidUserIDs
  /\ last.args.email \in ValidEmails
  /\ last.args.name \in ValidUserNames
  /\ last.args.id \notin DOMAIN last.preUsers
  /\ ~EmailUsed(last.preUsers, last.args.email)

\* C1: for every valid (id, email, name) whose id and email are not yet in
\* the store, CreateUser succeeds and an immediately following GetUser(id)
\* returns an entity with exactly that id, email and name, IsActive = true
\* and CreatedAt = UpdatedAt.
C1_CreateThenGet ==
  FreshValidCreateUser =>
    /\ last.err = NoError
    /\ LET g == UserService_GetUser(users, clock, last.args.id)
       IN  /\ g.err = NoError
           /\ g.ret.ID = last.args.id
           /\ g.ret.Email = last.args.email
           /\ g.ret.Name = last.args.name
           /\ g.ret.IsActive = TRUE
           /\ g.ret.CreatedAt = g.ret.UpdatedAt

C1_Witness ==
  /\ FreshValidCreateUser
  /\ last.err = NoError
  /\ last.preUsers # EmptyStore
  /\ UserService_GetUser(users, clock, last.args.id).ret.Email = last.args.email

\* C2: in any sequential execution, a second create (CreateUser or
\* CreateProduct) with an identifier that is already stored fails with an
\* already-exists error and the store still holds exactly the first entity's
\* data.  The create of the processor fails so for all arguments; the create
\* of the service reaches the processor when the arguments pass validation.
C2_SecondCreateRejected ==
  /\ \A id \in DOMAIN users, email \in Emails, name \in UserNames :
       UserProcessor_CreateUser(users, clock, id, email, name)
         = {Failed("user already exists", users, clock)}
  /\ \A id \in DOMAIN products, name \in ProductNames, description \in Descriptions,
        category \in Categories, price \in Prices, stock \in Stocks :
       ProductProcessor_CreateProduct(products, clock, id, name, description,
                                      category, price, stock)
         = Failed("product already exists", products, clock)
  /\ (last.op = "CreateUser" /\ last.args.id \in DOMAIN last.preUsers) =>
       /\ last.err # NoError
       /\ users = last.preUsers
       /\ (last.args.email \in ValidEmails /\ last.args.name \in ValidUserNames)
            => last.err = "user already exists"
  /\ (last.op = "CreateProduct" /\ last.args.id \in DOMAIN last.preProducts) =>
       /\ last.err # NoError
       /\ products = last.preProducts
       /\ (last.args.name # <<>> /\ last.args.category # <<>>
           /\ last.args.price >= 0 /\ IntLeq(GoInt(0), last.args.stock))
            => last.err = "product already exists"

\* a second CreateUser with the stored id and another email was refused
C2_Witness ==
  /\ last.op = "CreateUser"
  /\ last.args.id \in DOMAIN last.preUsers
  /\ last.args.email \in ValidEmails
  /\ last.args.email # last.preUsers[last.args.id].Email
  /\ last.err = "user already exists"
  /\ users[last.args.id] = last.preUsers[last.args.id]

\* the arguments of the last create break a rule of the validator:
\* identifier shorter than 3 characters, empty field, malformed email
HasAt(email) == \E i \in 1..Len(email) : email[i] = "@"

RejectedCreateUser ==
  /\ last.op = "CreateUser"
  /\ \/ Len(last.args.id) < 3
     \/ last.args.email = <<>>
     \/ last.args.name = <<>>
     \/ ~HasAt(last.args.email)

RejectedCreateProduct ==
  /\ last.op = "CreateProduct"
  /\ \/ Len(last.args.id) < 3
     \/ last.args.name = <<>>
     \/ last.args.category = <<>>

\* C3: a create whose input the validator rejects returns an error, performs
\* no store write (a following get for that id reports absent, Count
\* unchanged) and publishes no event.
C3_RejectedCreateWritesNothing ==
  /\ RejectedCreateUser =>
       /\ last.err # NoError
       /\ last.ret = Nil
       /\ users = last.preUsers
       /\ UserRepo_Count(users) = UserRepo_Count(last.preUsers)
       /\ last.args.id \notin DOMAIN last.preUsers
            => UserService_GetUser(users, clock, last.args.id).err = "user not found"
       /\ last.events = <<>>
  /\ RejectedCreateProduct =>
       /\ last.err # NoError
       /\ last.ret = Nil
       /\ products = last.preProducts
       /\ ProductRepo_Count(products) = ProductRepo_Count(last.preProducts)
       /\ last.args.id \notin DOMAIN last.preProducts
            => ProductService_GetProduct(products, clock, last.args.id).err
                 = "product not found"
       /\ last.events = <<>>

\* a create with a valid new id and a malformed email was refused
C3_Witness ==
  /\ RejectedCreateUser
  /\ last.args.id \in ValidUserIDs
  /\ last.args.id \notin DOMAIN last.preUsers
  /\ last.args.email # <<>>
  /\ last.args.name \in ValidUserNames
  /\ last.err = "invalid email format"
  /\ UserService_GetUser(users, clock, last.args.id).err = "user not found"

\* c is the integer a + b: the sum of Go's int when it has not wrapped around
IsSum(c, a, b) ==
  /\ c = IntAdd(a, b)
  /\ IntLess(a, GoInt(0)) = IntLess(b, GoInt(0)) =>
       IntLess(c, GoInt(0)) = IntLess(a, GoInt(0))

\* C4: in any sequential execution, AddStock(id, q) with q > 0 on a stored
\* product returns and stores stock equal to the previous stored stock plus
\* q, so successive additions accumulate (10, then +5, then +10 gives 25).
C4_AddStockAccumulates ==
  (/\ last.op = "AddStock"
   /\ IntLess(GoInt(0), last.args.quantity)
   /\ last.args.id \in DOMAIN last.preProducts) =>
    /\ last.err = NoError
    /\ IsSum(last.ret.Stock,
             last.preProducts[last.args.id].Stock, last.args.quantity)
    /\ IsSum(products[last.args.id].Stock,
             last.preProducts[last.args.id].Stock, last.args.quantity)

\* C5: RemoveStock(id, q) with q greater than the stored stock fails with
\* the "insufficient stock" error and leaves the stored stock unchanged (no
\* partial decrement); this error is distinct from the invalid-quantity error
\* returned for q <= 0, which also leaves the store unchanged.
\* The first error is that of a positive q, since the claim gives q <= 0 the
\* second one.
C5_RemoveStockRejected ==
  (last.op = "RemoveStock" /\ last.args.id \in DOMAIN last.preProducts) =>
    /\ (/\ IntLess(GoInt(0), last.args.quantity)
        /\ IntLess(last.preProducts[last.args.id].Stock, last.args.quantity)) =>
         /\ last.err = "insufficient stock"
         /\ products = last.preProducts
    /\ IntLeq(last.args.quantity, GoInt(0)) =>
         /\ last.err = "quantity must be positive"
         /\ last.err # "insufficient stock"
         /\ products = last.preProducts

\* with stock 25, RemoveStock(30) is refused and the stock stays 25
C5_Witness ==
  /\ last.op = "RemoveStock"
  /\ last.args.id \in DOMAIN last.preProducts
  /\ last.args.quantity = GoInt(30)
  /\ last.err = "insufficient stock"
  /\ products[last.args.id].Stock = GoInt(25)

\* C6: for a stored entity in either state, Deactivate followed by Activate
\* leaves IsActive = true, both calls succeed, and each call advances
\* UpdatedAt.  Each of the two calls, from every reachable state of the
\* entity, succeeds, sets the flag and advances UpdatedAt.
C6_DeactivateActivate ==
  /\ (last.op \in {"DeactivateUser", "ActivateUser"}
      /\ last.args.id \in DOMAIN last.preUsers) =>
       /\ last.err = NoError
       /\ users[last.args.id].IsActive = (last.op = "ActivateUser")
       /\ users[last.args.id].UpdatedAt > last.preUsers[last.args.id].UpdatedAt
  /\ (last.op \in {"DeactivateProduct", "ActivateProduct"}
      /\ last.args.id \in DOMAIN last.preProducts) =>
       /\ last.err = NoError
       /\ products[last.args.id].IsActive = (last.op = "ActivateProduct")
       /\ products[last.args.id].UpdatedAt
            > last.preProducts[last.args.id].UpdatedAt

\* Activate on a user that an earlier Deactivate had made inactive
C6_Witness ==
  /\ last.op = "ActivateUser"
  /\ last.args.id \in DOMAIN last.preUsers
  /\ last.preUsers[last.args.id].IsActive = FALSE
  /\ last.preUsers[last.args.id].UpdatedAt > last.preUsers[last.args.id].CreatedAt
  /\ users[last.args.id].IsActive = TRUE
  /\ users[last.args.id].UpdatedAt > last.preUsers[last.args.id].UpdatedAt

\* the list holds n distinct entities of the store
DistinctStored(list, store, n) ==
  /\ Len(list) = n
  /\ \A i \in 1..Len(list) :
       list[i].ID \in DOMAIN store /\ list[i] = store[list[i].ID]
  /\ \A i, j \in 1..Len(list) : list[i].ID = list[j].ID => i = j

\* C7: with n entities stored and limit >= 0, offset >= 0, the unfiltered
\* list operations (ListUsers, ListProducts) return exactly
\* min(limit, max(0, n - offset)) distinct stored entities.
C7_ListPagination ==
  (last.op \in {"ListUsers", "ListProducts"}
   /\ IntLeq(GoInt(0), last.args.limit) /\ IntLeq(GoInt(0), last.args.offset)) =>
    LET store == IF last.op = "ListUsers" THEN users ELSE products
        n == Cardinality(DOMAIN store)
    IN  /\ ~last.panic
        /\ last.err = NoError
        /\ DistinctStored(last.list, store,
                          PageSize(last.args.limit, last.args.offset, n))

(***************************************************************************)
(* Properties of the event bus                                             *)
(***************************************************************************)
Subscriptions == [t \in EventTypes |-> Elements(arrays[t], handlers[t])]

\* C8: Publish always reports success: with zero subscribed handlers for the
\* event type it invokes nothing and changes nothing, and when a handler
\* returns an error Publish still returns success and still invokes the
\* handlers registered after the failing one.
\* When no handler of the event type was unsubscribed during the call, the
\* handlers invoked are the registered ones in their order.
C8_PublishAlwaysSucceeds ==
  /\ [](pub.state = "returned" =>
          /\ pub.err = NoError
          /\ Len(pub.invoked) = Len(pub.registered)
          /\ (pub.registered = <<>> => pub.invoked = <<>>)
          /\ (~pub.unsubscribed =>
                \A k \in 1..Len(pub.registered) :
                  /\ pub.invoked[k].handler = pub.registered[k]
                  /\ pub.invoked[k].err = Handle(pub.registered[k])))
  /\ [][PublishBegin \/ PublishHandle \/ PublishReturn =>
         Subscriptions' = Subscriptions]_vars

\* HandlerB failed first and HandlerA, registered after it, was still called
C8_Witness ==
  /\ pub.state = "returned"
  /\ ~pub.unsubscribed
  /\ pub.err = NoError
  /\ Len(pub.invoked) = 2
  /\ pub.invoked[1] = [handler |-> "HandlerB", err |-> "handler failed"]
  /\ pub.invoked[2] = [handler |-> "HandlerA", err |-> NoError]

(***************************************************************************)
(* Properties of concurrent callers                                        *)
(***************************************************************************)
Started == {t \in Threads : thr[t] # Idle}

\* the calls made so far are CreateUser calls with pairwise distinct ids and
\* pairwise distinct emails
DistinctCreateUsers ==
  /\ Started # {}
  /\ \A t \in Started : thr[t].op = "CreateUser"
  /\ \A t1, t2 \in Started :
       t1 # t2 => thr[t1].id # thr[t2].id /\ thr[t1].email # thr[t2].email

\* C9: when N CreateUser calls with pairwise distinct ids and pairwise
\* distinct emails run concurrently, under every interleaving all N calls
\* succeed and afterwards the store contains all N users.
C9_ConcurrentCreateUsers ==
  DistinctCreateUsers =>
    /\ \A t \in Started :
         thr[t].pc = "done" =>
           /\ thr[t].err = NoError
           /\ thr[t].id \in DOMAIN users
           /\ users[thr[t].id].ID = thr[t].id
           /\ users[thr[t].id].Email = thr[t].email
    /\ DOMAIN users \subseteq {thr[t].id : t \in Started}

\* every goroutine has created its own user
C9_Witness ==
  /\ DistinctCreateUsers
  /\ Started = Threads
  /\ \A t \in Threads : thr[t].pc = "done" /\ thr[t].err = NoError
  /\ Cardinality(DOMAIN users) = MaxThreads

\* between r.mutex.Lock()/RLock() and the deferred Unlock()/RUnlock()
InCriticalSection(t) ==
  /\ thr[t].pc \in {"Exists", "FindByEmail", "FindByID", "FindAll", "Count",
                    "Save", "Delete"}
  /\ thr[t].in

Writing(t) == InCriticalSection(t) /\ thr[t].pc \in {"Save", "Delete"}

\* C10: for each store, under every interleaving of concurrent callers, a
\* write operation (Save, Delete) is never inside its critical section at
\* the same time as any other write or any read (FindByID, FindByEmail,
\* FindAll, Exists, Count, ...) of that store, while several reads may be
\* inside concurrently.
C10_WritersExclude ==
  \A t1, t2 \in Threads :
    t1 # t2 /\ Writing(t1) => ~InCriticalSection(t2)

\* two reads of the product store are inside together
C10_Witness ==
  /\ Store = "products"
  /\ \E t1, t2 \in Threads :
       /\ t1 # t2
       /\ InCriticalSection(t1) /\ ~Writing(t1)
       /\ InCriticalSection(t2) /\ ~Writing(t2)
       /\ thr[t1].pc # thr[t2].pc

(***************************************************************************)
(* Properties of the stored users and products                             *)
(***************************************************************************)
\* C12: in any sequential execution of CreateUser, UpdateUser, ActivateUser
\* and DeactivateUser calls, no two users in the store ever share the same
\* email.
C12_EmailsUnique ==
  \A k1, k2 \in DOMAIN users :
    k1 # k2 => users[k1].Email # users[k2].Email

\* an UpdateUser gave a stored user a new email while another user is stored
C12_Witness ==
  /\ last.op = "UpdateUser"
  /\ last.err = NoError
  /\ last.args.email # Nil
  /\ last.preUsers[last.args.id].Email # last.args.email
  /\ users[last.args.id].Email = last.args.email
  /\ Cardinality(DOMAIN users) = 2


\* C13: in every reachable state, under any sequence or interleaving of
\* product service operations (create, update, UpdateStock, AddStock,
\* RemoveStock, activate, deactivate), every stored product has Stock >= 0
\* and Price >= 0.
C13_StockAndPriceNotNegative ==
  \A k \in DOMAIN products :
    IntLeq(GoInt(0), products[k].Stock) /\ FloatAtLeast(products[k].Price, 0)

(***************************************************************************)
(* Properties of the repositories                                          *)
(***************************************************************************)
\* C11: every store boundary crossing copies: mutating an entity obtained
\* from FindByID, FindByEmail or any list operation, or mutating the entity
\* object after passing it to Save, never changes the state held in the
\* store.  No pointer the caller holds is a pointer of the map, and no
\* change the caller makes to an entity changes a stored record.
C11_StoreCopies ==
  /\ [](\A a \in DOMAIN mem.held, k \in DOMAIN mem.index : mem.index[k] # a)
  /\ [][OwnMutate => Stored(mem)' = Stored(mem)]_vars

\* the caller has changed an entity after saving it and an entity a list
\* operation returned, and the stored record differs from both
C11_Witness ==
  \E a, b \in DOMAIN mem.held :
    /\ mem.held[a].saved /\ mem.held[a].mutated
    /\ mem.held[b].from = "FindAll" /\ mem.held[b].mutated
    /\ mem.heap[a].ID = mem.heap[b].ID
    /\ Stored(mem)[mem.heap[a].ID] # mem.heap[a]
    /\ Stored(mem)[mem.heap[b].ID] # mem.heap[b]

(***************************************************************************)
(* Properties of the services with the event bus                           *)
(***************************************************************************)
\* the store of the service of the run
ServiceStore == IF driven = "UserService" THEN users ELSE products

\* a handler called for the event of the call in pub returned an error
HandlerFailed ==
  /\ pub.state \in {"dispatch", "returned", "done"}
  /\ \E k \in 1..Len(pub.invoked) : pub.invoked[k].err # NoError

\* C14: if a subscribed handler returns an error while a service operation's
\* event is being published, the service operation still returns success and
\* the entity state written by the processor remains in the store unchanged.
C14_HandlerErrorSwallowed ==
  HandlerFailed =>
    /\ ServiceStore = pub.written
    /\ pub.call.ret.ID \in DOMAIN ServiceStore
    /\ ServiceStore[pub.call.ret.ID] = pub.call.ret
    /\ (pub.state = "done" /\ last # NoCall) =>
         /\ last.err = NoError
         /\ last.ret = pub.call.ret
         /\ last.op = pub.call.op

\* CreateUser has returned the user after the first handler of user.created
\* failed and the second was called
C14_Witness ==
  /\ HandlerFailed
  /\ pub.state = "done"
  /\ last # NoCall
  /\ last.op = "CreateUser"
  /\ last.err = NoError
  /\ Len(pub.invoked) = 2
  /\ pub.invoked[1].err = "handler failed"
  /\ pub.invoked[2].err = NoError
  /\ users[last.args.id] = last.ret

\* the event type of each mutating operation
EventTypeOf(op) ==
  CASE op = "CreateUser" -> "user.created"
    [] op = "UpdateUser" -> "user.updated"
    [] op = "DeactivateUser" -> "user.deactivated"
    [] op = "ActivateUser" -> "user.activated"
    [] op = "CreateProduct" -> "product.created"
    [] op = "UpdateProduct" -> "product.updated"
    [] op \in {"UpdateStock", "AddStock", "RemoveStock"} -> "product.stock.updated"
    [] op = "DeactivateProduct" -> "product.deactivated"
    [] op = "ActivateProduct" -> "product.activated"

\* the fields of the event are those of the entity e
CarriesEntity(ev, e) ==
  /\ "UserID" \in DOMAIN ev => ev.UserID = e.ID /\ ev.Email = e.Email
  /\ "ProductID" \in DOMAIN ev => ev.ProductID = e.ID /\ ev.Name = e.Name
  /\ ("UserID" \in DOMAIN ev /\ "Name" \in DOMAIN ev) => ev.Name = e.Name
  /\ "Category" \in DOMAIN ev => ev.Category = e.Category
  /\ "Price" \in DOMAIN ev => ev.Price = e.Price
  /\ "Stock" \in DOMAIN ev => ev.Stock = e.Stock
  /\ "NewStock" \in DOMAIN ev => ev.NewStock = e.Stock
  /\ "CreatedAt" \in DOMAIN ev => ev.CreatedAt = e.CreatedAt
  /\ "UpdatedAt" \in DOMAIN ev => ev.UpdatedAt = e.UpdatedAt
  /\ "DeactivatedAt" \in DOMAIN ev => ev.DeactivatedAt = e.UpdatedAt
  /\ "ActivatedAt" \in DOMAIN ev => ev.ActivatedAt = e.UpdatedAt

\* C15: every successful mutating service call (create, update, activate,
\* deactivate, stock add/remove) publishes exactly one event of its type,
\* after the store write (a handler that reads the store sees the new state)
\* and before the call returns, carrying the fields of the resulting entity;
\* a call that fails in the validator or the processor publishes no event.
C15_OneEventPerSuccess ==
  /\ (last # NoCall /\ last.err = NoError) =>
       /\ Len(last.events) = 1
       /\ last.events[1].type = EventTypeOf(last.op)
       /\ CarriesEntity(last.events[1].event, last.ret)
       /\ pub.state = "done"
       /\ pub.call = last
       /\ pub.type = last.events[1].type
       /\ pub.event = last.events[1].event
       /\ Len(pub.invoked) = Len(pub.registered)
  /\ (last # NoCall /\ last.err # NoError) =>
       /\ last.events = <<>>
       /\ pub.state = "idle"
  /\ pub.state \in {"dispatch", "returned"} =>
       /\ last = NoCall
       /\ pub.call.ret.ID \in DOMAIN ServiceStore
       /\ ServiceStore[pub.call.ret.ID] = pub.call.ret
       /\ CarriesEntity(pub.event, ServiceStore[pub.call.ret.ID])

\* AddStock has returned after a handler of product.stock.updated was called
\* with the old and the new stock
C15_Witness ==
  /\ last # NoCall
  /\ last.op = "AddStock"
  /\ last.err = NoError
  /\ pub.state = "done"
  /\ Len(pub.invoked) >= 1
  /\ pub.event.OldStock = GoInt(10)
  /\ pub.event.NewStock = GoInt(15)
  /\ products[last.args.id].Stock = GoInt(15)

(***************************************************************************)
(* Properties of the dispatch of the event bus                             *)
(***************************************************************************)
\* C16: Publish(type, payload) invokes the handlers subscribed to that type
\* in the order in which they were subscribed, each once, and invokes no
\* handler subscribed only to a different event type.  A subscription goes
\* to the end of the list of its type and leaves the other type alone, and a
\* Publish during which no handler of the type is unsubscribed calls the
\* subscriptions of its type from the first to the last, one call each.
C16_DispatchInOrder ==
  /\ [][Subscribe =>
         \E t \in EventTypes, h \in EventHandlers :
           /\ Subscriptions'[t] = Append(Subscriptions[t], h)
           /\ \A u \in EventTypes \ {t} : Subscriptions'[u] = Subscriptions[u]]_vars
  /\ [][PublishBegin => pub'.registered = Subscriptions[pub'.type]]_vars
  /\ []((pub.state = "returned" /\ ~pub.unsubscribed) =>
          /\ Len(pub.invoked) = Len(pub.registered)
          /\ \A k \in 1..Len(pub.registered) :
               pub.invoked[k].handler = pub.registered[k]
          /\ \A k \in 1..Len(pub.invoked) :
               \E j \in 1..Len(pub.registered) :
                 pub.invoked[k].handler = pub.registered[j])

\* HandlerA, then HandlerB were subscribed to user.created and called in
\* that order, and product.created has a subscription that was not called
C16_Witness ==
  /\ pub.state = "returned"
  /\ ~pub.unsubscribed
  /\ pub.type = "user.created"
  /\ pub.registered = <<"HandlerA", "HandlerB">>
  /\ Len(pub.invoked) = 2
  /\ pub.invoked[1].handler = "HandlerA"
  /\ pub.invoked[2].handler = "HandlerB"
  /\ Subscriptions["user.created"] = <<"HandlerA", "HandlerB">>
  /\ Subscriptions["product.created"] = <<"HandlerB">>

\* the number of places of the sequence that hold x
Occurrences(seq, x) == Cardinality({k \in 1..Len(seq) : seq[k] = x})

\* C17: for every Publish call, each handler is invoked at most once, and
\* only handlers that were registered for that type at the instant of the
\* publish are invoked, also when Subscribe and Unsubscribe calls on the same
\* event type run concurrently with the dispatch.  A handler is invoked at
\* most once for each of its subscriptions at the instant of the publish.
C17_AtMostOnceWhenConcurrent ==
  pub.state \in {"dispatch", "returned"} =>
    \A h \in EventHandlers \cup {NoHandler} :
      Occurrences([k \in 1..Len(pub.invoked) |-> pub.invoked[k].handler], h)
        <= Occurrences(pub.registered, h)

(***************************************************************************)
(* Properties of Save and Delete                                           *)
(***************************************************************************)
\* the map of the repository the goroutines call
RepoStore == IF Store = "users" THEN users ELSE products

\* C18: Save never fails and is an upsert by identifier: saving an entity
\* whose ID is already stored replaces that record and leaves Count
\* unchanged, saving a new ID adds one record, and after several saves of
\* the same ID the store holds the value of the last save to take the lock.
\* Every Save, which runs with the lock held, returns nil and leaves its
\* entity under its ID and every other record as it was.
C18_SaveUpserts ==
  [][\A t \in Threads :
       Save(t) =>
         /\ thr'[t].pc = "done" /\ thr'[t].err = NoError
         /\ DOMAIN RepoStore' = DOMAIN RepoStore \cup {thr[t].ent.ID}
         /\ RepoStore'[thr[t].ent.ID] = thr[t].ent
         /\ \A k \in DOMAIN RepoStore \ {thr[t].ent.ID} : RepoStore'[k] = RepoStore[k]
         /\ Cardinality(DOMAIN RepoStore')
              = IF thr[t].ent.ID \in DOMAIN RepoStore
                THEN Cardinality(DOMAIN RepoStore)
                ELSE Cardinality(DOMAIN RepoStore) + 1]_vars

\* two CreateUser calls with the same id and different emails have both
\* saved: one record, that of the second save
C18_Witness ==
  /\ Store = "users"
  /\ \A t \in {1, 2} : thr[t].pc = "done" /\ thr[t].op = "CreateUser"
                        /\ thr[t].err = NoError
  /\ thr[1].id = thr[2].id
  /\ thr[1].email # thr[2].email
  /\ Cardinality(DOMAIN users) = 1
  /\ users[thr[2].id].Email = thr[2].email
  /\ users[thr[2].id].CreatedAt = 1

\* the map of the repository before the last call
PreStore == IF driven = "UserService" THEN last.preUsers ELSE last.preProducts

\* C19: Delete(id) on a stored id removes exactly that record (afterwards
\* Exists(id) is false, FindByID(id) is absent, Count is one less and every
\* other record is unchanged); Delete on an absent id returns a not-found
\* error and leaves the store unchanged.
C19_DeleteRemovesOne ==
  last.op = "Delete" =>
    IF last.args.id \in DOMAIN PreStore
    THEN /\ last.err = NoError
         /\ ~UserRepo_Exists(ServiceStore, last.args.id)
         /\ ~ProductRepo_Exists(ServiceStore, last.args.id)
         /\ UserRepo_FindByID(ServiceStore, last.args.id) = Nil
         /\ ProductRepo_FindByID(ServiceStore, last.args.id) = Nil
         /\ UserRepo_Count(ServiceStore) = UserRepo_Count(PreStore) - 1
         /\ \A k \in DOMAIN PreStore \ {last.args.id} :
              k \in DOMAIN ServiceStore /\ ServiceStore[k] = PreStore[k]
    ELSE /\ last.err = IF driven = "UserService" THEN "user not found"
                       ELSE "product not found"
         /\ ServiceStore = PreStore

\* of two stored users one was deleted and the other is stored as before
C19_Witness ==
  /\ driven = "UserService"
  /\ last.op = "Delete"
  /\ last.err = NoError
  /\ Cardinality(DOMAIN last.preUsers) = 2
  /\ Cardinality(DOMAIN users) = 1
  /\ \A k \in DOMAIN users : users[k] = last.preUsers[k]

(***************************************************************************)
(* Properties of the bulk operations                                       *)
(***************************************************************************)
\* the indices of the items for which an error was returned
ErrorIndices == {bulk.errors[k].Index : k \in DOMAIN bulk.errors}

\* the place in the returned entities of the entity of item j
Rank(j) == Cardinality({m \in 0..j : m \notin ErrorIndices})

\* the identifier an item names
ItemID(op, item) ==
  CASE op \in {"BulkCreateUsers", "BulkCreateProducts"} -> item.ID
    [] op = "BulkDeactivateUsers" -> item
    [] op = "BulkUpdateStock" -> item.ProductID

\* C20: the bulk operations process every item in order even after a
\* failure: the number of returned entities plus the number of returned
\* errors equals the number of items, each error carries the index of the
\* item that failed, and items after a failed item are still applied.
C20_BulkProcessesEveryItem ==
  /\ [](bulk.state \in {"loop", "returned"} =>
         /\ Len(bulk.entities) + Len(bulk.errors) = bulk.i
         /\ bulk.state = "returned" => bulk.i = Len(bulk.items)
         /\ \A k \in DOMAIN bulk.errors :
              /\ bulk.errors[k].Index \in 0..(bulk.i - 1)
              /\ bulk.errors[k].Message # NoError
              /\ \A l \in DOMAIN bulk.errors :
                   k < l => bulk.errors[k].Index < bulk.errors[l].Index
         /\ \A j \in (0..(bulk.i - 1)) \ ErrorIndices :
              bulk.entities[Rank(j)].ID = ItemID(bulk.op, bulk.items[j + 1]))
  /\ [][BulkItem =>
          \E o \in BulkServiceCall(bulk.op, bulk.items[bulk.i + 1], ServiceStore,
                                    clock) :
            /\ ServiceStore' = o.store
            /\ bulk'.i = bulk.i + 1
            /\ bulk'.items = bulk.items
            /\ IF o.err = NoError
               THEN /\ bulk'.entities = Append(bulk.entities, o.ret)
                    /\ bulk'.errors = bulk.errors
               ELSE /\ bulk'.entities = bulk.entities
                    /\ bulk'.errors =
                         Append(bulk.errors, [Index |-> bulk.i, Message |-> o.err])]_vars

\* a bulk operation returned an error for one item and the entity of a later
\* item, which the store holds
C20_Witness ==
  /\ bulk.state = "returned"
  /\ Len(bulk.items) = 3
  /\ \E k \in DOMAIN bulk.errors :
       \E j \in (bulk.errors[k].Index + 1)..(Len(bulk.items) - 1) :
         /\ j \notin ErrorIndices
         /\ ItemID(bulk.op, bulk.items[j + 1]) \in DOMAIN ServiceStore
         /\ ServiceStore[ItemID(bulk.op, bulk.items[j + 1])] = bulk.entities[Rank(j)]

(***************************************************************************)
(* Properties of the filtered list operations                              *)
(***************************************************************************)
\* the identifiers a list holds
ListedIDs(list) == {list[i].ID : i \in DOMAIN list}

\* ListAvailableProducts, asked for all products, returns the product
Listed(id) ==
  \A r \in ProductRepo_FindAvailable(products, GoInt(Cardinality(DOMAIN products)),
                                   GoInt(0)) :
    id \in ListedIDs(r.list)

\* no call of ListAvailableProducts returns the product
NotListed(id) ==
  \A limit \in Limits, offset \in Limits :
    \A r \in ProductRepo_FindAvailable(products, limit, offset) :
      id \notin ListedIDs(r.list)

\* the stored products that are active and have stock
ActiveWithStock ==
  {k \in DOMAIN products :
     products[k].IsActive /\ IntLess(GoInt(0), products[k].Stock)}

\* C21: a product is available exactly when IsActive is true and Stock > 0:
\* IsAvailable returns that value, and ListAvailableProducts lists a product
\* iff it holds in the stored state, so a product stops being listed
\* immediately after DeactivateProduct or after its stock reaches 0 and is
\* listed again after ActivateProduct with positive stock.
C21_AvailableIffActiveWithStock ==
  /\ \A k \in DOMAIN products :
       Product_IsAvailable(products[k]) <=> k \in ActiveWithStock
  /\ last.op = "ListAvailableProducts" /\ ~last.panic =>
       /\ ListedIDs(last.list) \subseteq ActiveWithStock
       /\ \A i \in DOMAIN last.list : last.list[i] = products[last.list[i].ID]
       /\ (/\ last.args.offset = GoInt(0)
           /\ IntLeq(GoInt(Cardinality(ActiveWithStock)), last.args.limit)) =>
            ListedIDs(last.list) = ActiveWithStock
  /\ last.op = "DeactivateProduct" /\ last.err = NoError => NotListed(last.args.id)
  /\ last.op = "RemoveStock" /\ last.err = NoError /\ last.ret.Stock = GoInt(0) =>
       NotListed(last.args.id)
  /\ (/\ last.op = "ActivateProduct"
      /\ last.err = NoError
      /\ IntLess(GoInt(0), last.ret.Stock)) =>
       Listed(last.args.id)

\* a product with stock that was deactivated has been activated and is listed
C21_Witness ==
  /\ last.op = "ActivateProduct"
  /\ last.err = NoError
  /\ ~last.preProducts[last.args.id].IsActive
  /\ IntLess(GoInt(0), last.ret.Stock)
  /\ Listed(last.args.id)

\* the predicate of the filtered list operation op called with args
MatchesList(op, args, e) ==
  CASE op = "ListActiveUsers" -> e.IsActive
    [] op = "ListAvailableProducts" -> e.IsActive /\ IntLess(GoInt(0), e.Stock)
    [] op = "ListProductsByCategory" -> e.Category = args.category
    [] op = "ListProductsByPriceRange" ->
         e.Price >= args.minPrice /\ e.Price <= args.maxPrice

\* the stored entities that match the predicate of the last call
Matching ==
  {k \in DOMAIN ServiceStore : MatchesList(last.op, last.args, ServiceStore[k])}

FilteredListOps ==
  {"ListActiveUsers", "ListAvailableProducts", "ListProductsByCategory",
   "ListProductsByPriceRange"}

\* C30: the filtered list operations (FindActive, FindAvailable,
\* FindByCategory, FindByPriceRange) apply pagination after filtering: with m
\* stored entities matching the predicate and limit >= 0, offset >= 0, they
\* return exactly min(limit, max(0, m - offset)) entities, all of which match
\* the predicate.
C30_PaginationAfterFilter ==
  (/\ last.op \in FilteredListOps
   /\ IntLeq(GoInt(0), last.args.limit)
   /\ IntLeq(GoInt(0), last.args.offset)) =>
    /\ ~last.panic
    /\ last.err = NoError
    /\ Len(last.list) =
         PageSize(last.args.limit, last.args.offset, Cardinality(Matching))
    /\ ListedIDs(last.list) \subseteq Matching
    /\ \A i \in DOMAIN last.list : last.list[i] = ServiceStore[last.list[i].ID]
    /\ \A i, j \in DOMAIN last.list : last.list[i].ID = last.list[j].ID => i = j

(***************************************************************************)
(* Properties of the updates                                               *)
(***************************************************************************)
\* the last call changes a stored entity: an update is given a field
Mutation ==
  \/ last.op \in {"DeactivateUser", "ActivateUser", "UpdateStock", "AddStock",
                  "RemoveStock", "DeactivateProduct", "ActivateProduct"}
  \/ last.op = "UpdateUser" /\ (last.args.email # Nil \/ last.args.name # Nil)
  \/ /\ last.op = "UpdateProduct"
     /\ (last.args.name # Nil \/ last.args.price # NilPtr \/ last.args.stock # NilPtr)

\* C22: every successful mutation of a stored entity (UpdateUser or
\* UpdateProduct with any provided field, UpdateStock, AddStock, RemoveStock,
\* activate, deactivate) re-sets the stored entity's UpdatedAt to the time of
\* that mutation.
C22_MutationStampsUpdatedAt ==
  Mutation /\ last.err = NoError =>
    /\ ServiceStore[last.args.id].UpdatedAt = clock
    /\ ServiceStore[last.args.id].UpdatedAt >
         (IF driven = "UserService" THEN last.preUsers
          ELSE last.preProducts)[last.args.id].UpdatedAt

(***************************************************************************)
(* Properties of concurrent creates                                        *)
(***************************************************************************)
\* the goroutines whose create call returned the entity it saved
Created == {t \in Threads : /\ thr[t].pc = "done"
                            /\ thr[t].op \in {"CreateUser", "CreateProduct"}
                            /\ thr[t].err = NoError}

\* C23: there is an interleaving of two concurrent create calls with the same
\* identifier in which both pass the existence check before either saves,
\* both return success, and the store ends up holding only the data of the
\* call that saved last.  The Save of a create call whose identifier was
\* stored in the meantime succeeds and replaces the record, so the record of
\* an identifier is that of one of the calls that created it.
C23_CreateOverwrites ==
  /\ [](\A t \in Created :
          thr[t].id \in DOMAIN RepoStore =>
            RepoStore[thr[t].id] \in {thr[u].ret : u \in {v \in Created : thr[v].id = thr[t].id}})
  /\ [][\A t \in Threads :
          Save(t) /\ thr[t].id \in DOMAIN RepoStore =>
            /\ thr'[t].pc = "done" /\ thr'[t].err = NoError
            /\ thr'[t].ret = thr[t].ent
            /\ RepoStore'[thr[t].id] = thr[t].ent
            /\ RepoStore[thr[t].id] # thr[t].ent
            /\ DOMAIN RepoStore' = DOMAIN RepoStore]_vars

\* two creates of one identifier returned different entities without error
\* and the store holds one record, the entity of one of them
C23_Witness ==
  \E t1, t2 \in Created :
    /\ thr[t1].id = thr[t2].id
    /\ thr[t1].ret # thr[t2].ret
    /\ DOMAIN RepoStore = {thr[t1].id}
    /\ RepoStore[thr[t1].id] = thr[t2].ret

\* C24: the email uniqueness check and the save are not atomic: there is an
\* interleaving of two concurrent CreateUser calls with distinct ids and the
\* same email in which both succeed, leaving two stored users that share
\* one email.  Each call that passes the check found no stored user with its
\* email at that moment, and the user it saves carries the email whatever
\* was stored in between.
C24_EmailCheckNotAtomic ==
  /\ [][\A t \in Threads :
          FindByEmail(t) /\ thr'[t].pc = "New" =>
            \A k \in DOMAIN users : users[k].Email # thr[t].email]_vars
  /\ [][\A t \in Threads :
          Save(t) /\ thr[t].op = "CreateUser" =>
            /\ thr'[t].err = NoError
            /\ users'[thr[t].id].Email = thr[t].email]_vars

\* two users with different ids and one email are stored, each by a
\* CreateUser that returned without error
C24_Witness ==
  \E t1, t2 \in Created :
    /\ thr[t1].op = "CreateUser" /\ thr[t2].op = "CreateUser"
    /\ thr[t1].id # thr[t2].id
    /\ thr[t1].email = thr[t2].email
    /\ {thr[t1].id, thr[t2].id} \subseteq DOMAIN users
    /\ users[thr[t1].id].Email = users[thr[t2].id].Email

(***************************************************************************)
(* Properties of the email of a user                                       *)
(***************************************************************************)
\* a stored user with another id has the email
HeldByOther(store, email, id) ==
  \E k \in DOMAIN store : k # id /\ store[k].Email = email

\* C27: CreateUser or UpdateUser that would give a user an email already
\* held by a user with a different id fails with an email-in-use error and
\* leaves the store unchanged, whereas UpdateUser that passes the user's own
\* current email succeeds.  The calls are those that the validator accepts,
\* for an id that is not stored (CreateUser) or stored (UpdateUser).
C27_EmailInUse ==
  /\ /\ last.op = "CreateUser"
     /\ ValidateCreateUser(last.args.id, last.args.email, last.args.name) = NoError
     /\ last.args.id \notin DOMAIN last.preUsers
     /\ HeldByOther(last.preUsers, last.args.email, last.args.id)
     => /\ last.err = "email already in use"
        /\ last.ret = Nil
        /\ users = last.preUsers
  /\ /\ last.op = "UpdateUser"
     /\ ValidateUpdateUser(last.args.id, last.args.email, last.args.name) = NoError
     /\ last.args.id \in DOMAIN last.preUsers
     /\ last.args.email # Nil
     => IF HeldByOther(last.preUsers, last.args.email, last.args.id)
        THEN /\ last.err = "email already in use by another user"
             /\ last.ret = Nil
             /\ users = last.preUsers
        ELSE /\ last.err = NoError
             /\ users[last.args.id].Email = last.args.email
             /\ \A k \in DOMAIN last.preUsers \ {last.args.id} :
                  users[k] = last.preUsers[k]

\* an UpdateUser asked for the email of the other stored user and was
\* rejected
C27_Witness ==
  /\ last.op = "UpdateUser"
  /\ last.err = "email already in use by another user"
  /\ Cardinality(DOMAIN users) = 2
  /\ users = last.preUsers
  /\ HeldByOther(users, last.args.email, last.args.id)

(***************************************************************************)
(* Properties of the calls on an id that is not stored                     *)
(***************************************************************************)
\* the operations that require the entity to exist
RequireExisting ==
  {"GetUser", "UpdateUser", "DeactivateUser", "ActivateUser", "GetProduct",
   "UpdateProduct", "UpdateStock", "AddStock", "RemoveStock", "DeactivateProduct",
   "ActivateProduct"}

\* the validator of the service accepts the arguments of the last call
AcceptedByValidator ==
  CASE last.op = "UpdateUser" ->
         ValidateUpdateUser(last.args.id, last.args.email, last.args.name) = NoError
    [] last.op = "UpdateProduct" ->
         ValidateUpdateProduct(last.args.id, last.args.name, Nil, Nil,
                               last.args.price, last.args.stock) = NoError
    [] last.op = "UpdateStock" ->
         ValidateUpdateProduct(last.args.id, Nil, Nil, Nil, NilPtr,
                               Ptr(last.args.newStock)) = NoError
    [] OTHER -> TRUE

\* C28: a store lookup (FindByID, FindByEmail) of an absent key returns
\* absent without an error, and every processor operation that requires
\* existence (get, update, activate, deactivate, UpdateStock, AddStock,
\* RemoveStock) called with an id not in the store returns a not-found error,
\* creates no record and publishes no event.
C28_AbsentIsNotFound ==
  /\ \A id \in UserIDs \ DOMAIN users : UserRepo_FindByID(users, id) = Nil
  /\ \A id \in ProductIDs \ DOMAIN products : ProductRepo_FindByID(products, id) = Nil
  /\ \A email \in Emails :
       ~EmailUsed(users, email) => UserRepo_FindByEmail(users, email) = {Nil}
  /\ /\ last.op \in RequireExisting
     /\ last.args.id \notin DOMAIN PreStore
     /\ AcceptedByValidator
     => /\ last.err = IF driven = "UserService" THEN "user not found"
                      ELSE "product not found"
        /\ last.ret = Nil
        /\ last.events = <<>>
        /\ ServiceStore = PreStore

\* UpdateStock of a product that is not stored, next to one that is
C28_Witness ==
  /\ last.op = "UpdateStock"
  /\ last.args.newStock = GoInt(3)
  /\ last.args.id \notin DOMAIN products
  /\ last.err = "product not found"
  /\ products # EmptyStore
  /\ products = last.preProducts

(***************************************************************************)
(* Properties of the validators                                            *)
(***************************************************************************)
\* the errors of the rules of the fields, in the order id, email, name or
\* id, name, description, category, price, stock
FieldErrors ==
  IF last.op = "ValidateCreateUser"
  THEN <<UserValidator_validateID(last.args.id), validateEmail(last.args.email),
         UserValidator_validateName(last.args.name)>>
  ELSE <<ProductValidator_validateID(last.args.id),
         ProductValidator_validateName(last.args.name),
         validateDescription(last.args.description),
         validateCategory(last.args.category), validatePrice(last.args.price),
         validateStock(last.args.stock)>>

\* the fields that break their rule
Failing == {i \in DOMAIN FieldErrors : FieldErrors[i] # NoError}

\* C29: when several fields are invalid the validator returns the error of
\* the first failing field in a fixed order: id, name, description, category,
\* price, stock for products and id, email, name for users; it returns no
\* error iff every checked field passes its rule.
C29_FirstFailingField ==
  last.op \in {"ValidateCreateUser", "ValidateCreateProduct"} =>
    /\ last.err = NoError <=> Failing = {}
    /\ Failing # {} =>
         \E i \in Failing :
           /\ \A j \in Failing : i <= j
           /\ last.err = FieldErrors[i]

\* a product whose name, price and stock break their rules is refused for
\* its name
C29_Witness ==
  /\ last.op = "ValidateCreateProduct"
  /\ Failing = {2, 5, 6}
  /\ last.err = "product name cannot be empty"

(***************************************************************************)
(* Properties of the updates of several fields                             *)
(***************************************************************************)
\* the store of the side that this run calls, and the same before the call
UpdatedStore == IF driven \in {"UserService", "UserProcessor"} THEN users ELSE products

StoreBefore ==
  IF driven \in {"UserService", "UserProcessor"} THEN last.preUsers
  ELSE last.preProducts

\* an UpdateUser or UpdateProduct of SpecUpdate has returned
Updated ==
  /\ last.op \in {"UpdateUser", "UpdateProduct"}
  /\ driven \in {"UserService", "UserProcessor", "ProductService", "ProductProcessor"}

\* the optional arguments of the call that are not nil
Provided ==
  {f \in DOMAIN last.args \ {"id"} :
     IF f \in {"price", "stock"} THEN last.args[f] # NilPtr ELSE last.args[f] # Nil}

\* C25: an update that provides several fields and fails on one of them (an
\* entity mutator rejects the value, or the new email belongs to another
\* user) persists nothing: the stored entity is identical to its state
\* before the call, including the fields that had already been applied to
\* the in-flight copy.
C25_FailedUpdatePersistsNothing ==
  Updated /\ last.err # NoError => UpdatedStore = StoreBefore

\* an update of the name, the price and the stock of a stored product whose
\* stock the mutator refused after the name and the price were applied
C25_Witness ==
  /\ Updated
  /\ last.op = "UpdateProduct"
  /\ last.args.id \in DOMAIN StoreBefore
  /\ last.err = "stock cannot be negative"
  /\ {"name", "price", "stock"} \subseteq Provided
  /\ StoreBefore[last.args.id].Name # last.args.name
  /\ UpdatedStore[last.args.id].Name = StoreBefore[last.args.id].Name
  /\ UpdatedStore[last.args.id].Price = 5

\* the field of the entity that the argument f of an update sets
FieldOf(f) ==
  CASE f = "email" -> "Email"
    [] f = "name" -> "Name"
    [] f = "description" -> "Description"
    [] f = "category" -> "Category"
    [] f = "price" -> "Price"
    [] f = "stock" -> "Stock"

\* the value that the argument f of the call points at
Given(f) == IF f \in {"price", "stock"} THEN last.args[f][1] ELSE last.args[f]

\* the error of the validator's rule of f for the value given
RuleError(f) ==
  CASE f = "email" -> validateEmail(Given(f))
    [] f = "name" /\ last.op = "UpdateUser" -> UserValidator_validateName(Given(f))
    [] f = "name" /\ last.op = "UpdateProduct" -> ProductValidator_validateName(Given(f))
    [] f = "description" -> validateDescription(Given(f))
    [] f = "category" -> validateCategory(Given(f))
    [] f = "price" -> validatePrice(Given(f))
    [] f = "stock" -> validateStock(Given(f))

\* the id is stored, every argument that is not nil passes its rule and the
\* email given, if any, is not that of another user
Acceptable ==
  /\ last.args.id \in DOMAIN StoreBefore
  /\ \A f \in Provided : RuleError(f) = NoError
  /\ "email" \in Provided => ~HeldByOther(StoreBefore, last.args.email, last.args.id)

\* C26: in a successful UpdateUser or UpdateProduct call, every field whose
\* argument is nil keeps its stored value and is not validated, and every
\* field whose argument is non-nil takes exactly the given value in the
\* store. A nil argument is not validated: a call of the service succeeds
\* whenever its id is stored and the arguments that are not nil are
\* acceptable.
C26_NilKeepsGivenSets ==
  Updated =>
    /\ last.err = NoError =>
          \A f \in DOMAIN last.args \ {"id"} :
            UpdatedStore[last.args.id][FieldOf(f)] =
              IF f \in Provided THEN Given(f)
              ELSE StoreBefore[last.args.id][FieldOf(f)]
    /\ driven \in {"UserService", "ProductService"} /\ Acceptable =>
          last.err = NoError

\* a successful UpdateProduct of the service with a description and a price
\* and nil for the name, the category and the stock
C26_Witness ==
  /\ Updated
  /\ driven = "ProductService"
  /\ last.err = NoError
  /\ Provided = {"description", "price"}
  /\ StoreBefore[last.args.id].Description # last.args.description
  /\ StoreBefore[last.args.id].Price # last.args.price[1]
  /\ StoreBefore[last.args.id].Name = <<"P","e","n">>

(***************************************************************************)
(* Properties of Unsubscribe                                               *)
(***************************************************************************)
\* seq without its first element equal to x; seq when it has none
RECURSIVE WithoutFirst(_, _)
WithoutFirst(seq, x) ==
  IF seq = <<>> THEN <<>>
  ELSE IF Head(seq) = x THEN Tail(seq)
  ELSE <<Head(seq)>> \o WithoutFirst(Tail(seq), x)

\* C31: Unsubscribe(type, handler) removes exactly the first registration of
\* that handler for that type and keeps all other registrations in their
\* original order; a handler subscribed twice and unsubscribed once is still
\* invoked once per publish, and unsubscribing a handler that is not
\* registered changes nothing.  The call returns and leaves the
\* registrations of its type without the first one of the handler, those of
\* the other types as they were, and a Publish calls what is registered.
C31_UnsubscribeRemovesFirst ==
  /\ last.op = "Unsubscribe" =>
       /\ ~last.panic
       /\ Subscriptions[last.type] = WithoutFirst(last.before, last.handler)
  /\ (driven = "Subscriber" /\ pub.state = "returned") =>
       /\ Len(pub.invoked) = Len(pub.registered)
       /\ \A k \in 1..Len(pub.registered) :
            pub.invoked[k].handler = pub.registered[k]

(***************************************************************************)
(* Properties of the activation flag, the identity and the creation time   *)
(***************************************************************************)
\* the store of the service of this run before the last call
PreServiceStore == IF driven = "UserService" THEN last.preUsers ELSE last.preProducts

\* an activate or deactivate call on a stored id has returned
Toggled ==
  /\ last.op \in {"DeactivateUser", "ActivateUser", "DeactivateProduct",
                  "ActivateProduct"}
  /\ last.args.id \in DOMAIN PreServiceStore

\* the value of IsActive that the call sets
Target == last.op \in {"ActivateUser", "ActivateProduct"}

\* C32: Activate and Deactivate are accepted in either state and are
\* idempotent in effect: Deactivate on an already inactive entity (or
\* Activate on an active one) succeeds, leaves IsActive at the same value,
\* changes no field other than UpdatedAt, and publishes its event again.
\* In either state the call succeeds, the stored entity is the one before
\* with IsActive at the value of the call and a later UpdatedAt, and one
\* event of the type of the call is published for the entity.
C32_ToggleIdempotent ==
  Toggled =>
    /\ last.err = NoError
    /\ ServiceStore[last.args.id] =
         [PreServiceStore[last.args.id] EXCEPT
            !.IsActive = Target,
            !.UpdatedAt = ServiceStore[last.args.id].UpdatedAt]
    /\ ServiceStore[last.args.id].UpdatedAt > PreServiceStore[last.args.id].UpdatedAt
    /\ \A k \in DOMAIN ServiceStore \ {last.args.id} :
         ServiceStore[k] = PreServiceStore[k]
    /\ Len(last.events) = 1
    /\ last.events[1].type = EventTypeOf(last.op)
    /\ CarriesEntity(last.events[1].event, ServiceStore[last.args.id])

\* a DeactivateUser of a user that an earlier DeactivateUser made inactive
C32_Witness ==
  /\ Toggled
  /\ last.op = "DeactivateUser"
  /\ ~PreServiceStore[last.args.id].IsActive
  /\ PreServiceStore[last.args.id].UpdatedAt > PreServiceStore[last.args.id].CreatedAt
  /\ ~users[last.args.id].IsActive
  /\ last.err = NoError
  /\ last.events[1].type = "user.deactivated"

\* C33: after an entity has been created, no update, stock, activate or
\* deactivate operation changes its ID or its CreatedAt, and the key under
\* which it is stored always equals its ID.
C33_IdentityAndCreationFixed ==
  /\ [](/\ \A k \in DOMAIN users : users[k].ID = k
        /\ \A k \in DOMAIN products : products[k].ID = k)
  /\ [][/\ \A k \in DOMAIN users :
             /\ k \in DOMAIN users'
             /\ users'[k].ID = users[k].ID
             /\ users'[k].CreatedAt = users[k].CreatedAt
        /\ \A k \in DOMAIN products :
             /\ k \in DOMAIN products'
             /\ products'[k].ID = products[k].ID
             /\ products'[k].CreatedAt = products[k].CreatedAt]_vars

\* an UpdateUser that changed the name and the email of a user created
\* earlier
C33_Witness ==
  /\ last.op = "UpdateUser"
  /\ last.err = NoError
  /\ last.args.name # Nil
  /\ last.args.email # Nil
  /\ users[last.args.id].Name # last.preUsers[last.args.id].Name
  /\ users[last.args.id].Email # last.preUsers[last.args.id].Email
  /\ users[last.args.id].UpdatedAt > users[last.args.id].CreatedAt
  /\ users[last.args.id].CreatedAt = last.preUsers[last.args.id].CreatedAt

(***************************************************************************)
(* Properties of deletion                                                  *)
(***************************************************************************)
\* C34: deletion keeps no tombstone: after Delete(id) of a stored user, a
\* create with the same identifier and the same email succeeds and yields a
\* fresh active entity.
C34_CreateAfterDelete ==
  (last.op = "CreateUser" /\ "deleted" \in DOMAIN last.args) =>
    /\ last.err = NoError
    /\ last.args.id \notin DOMAIN last.preUsers
    /\ users[last.args.id] = last.ret
    /\ last.ret = [ID |-> last.args.deleted.ID, Email |-> last.args.deleted.Email,
                   Name |-> last.args.name, CreatedAt |-> clock,
                   UpdatedAt |-> clock, IsActive |-> TRUE]
    /\ last.ret.CreatedAt > last.args.deleted.UpdatedAt
    /\ \A k \in DOMAIN users \ {last.args.id} : users[k] = last.preUsers[k]

\* the user deleted was inactive and had another name
C34_Witness ==
  /\ last.op = "CreateUser"
  /\ "deleted" \in DOMAIN last.args
  /\ last.err = NoError
  /\ ~last.args.deleted.IsActive
  /\ last.args.deleted.Name # last.ret.Name
  /\ users[last.args.id].IsActive

(***************************************************************************)
(* Properties of concurrent stock operations                               *)
(***************************************************************************)
\* the goroutines whose call has returned without error
Succeeded == {t \in Threads : thr[t].pc = "done" /\ thr[t].err = NoError}

\* C35: the stock-updated event published by AddStock, RemoveStock and
\* UpdateStock carries as OldStock the stored stock immediately before that
\* operation's write and as NewStock the stock it wrote, so for AddStock(q)
\* NewStock = OldStock + q and for RemoveStock(q) NewStock = OldStock - q,
\* also when other stock operations on the same product run concurrently.
C35_StockEventOldAndNew ==
  \A t \in Succeeded :
    /\ thr[t].event.OldStock = thr[t].stored
    /\ thr[t].event.NewStock = thr[t].ret.Stock
    /\ thr[t].op = "AddStock" =>
         thr[t].event.NewStock = IntAdd(thr[t].event.OldStock, thr[t].q)
    /\ thr[t].op = "RemoveStock" =>
         thr[t].event.NewStock = IntSub(thr[t].event.OldStock, thr[t].q)

\* the sum of the quantities added less those removed by the goroutines of S
RECURSIVE NetChange(_)
NetChange(S) ==
  IF S = {} THEN GoInt(0)
  ELSE LET t == CHOOSE u \in S : TRUE
       IN  IntAdd(IF thr[t].op = "AddStock" THEN thr[t].q ELSE IntNeg(thr[t].q),
                  NetChange(S \ {t}))

\* C36: no successful stock change is lost: after any set of AddStock and
\* RemoveStock calls on one product that run concurrently and all return
\* success, the stored stock equals the initial stock plus the sum of the
\* added quantities minus the sum of the removed quantities.
C36_NoStockChangeLost ==
  (/\ Succeeded = Threads
   /\ \A t \in Threads : thr[t].op \in {"AddStock", "RemoveStock"}) =>
    products[StockProductID].Stock
      = IntAdd(StockedProduct.ret.Stock, NetChange(Threads))

(***************************************************************************)
(* Properties of the list operations for any limit and offset              *)
(***************************************************************************)
\* C37: the list operations complete without failure for every integer limit
\* and offset, including negative values and limit 0: they return a possibly
\* empty sequence of stored entities and never crash or return an error.
C37_ListNeverFails ==
  last.op \in {"ListUsers", "ListProducts"} =>
    /\ ~last.panic
    /\ last.err = NoError
    /\ \A i \in 1..Len(last.list) :
         /\ last.list[i].ID \in DOMAIN ServiceStore
         /\ last.list[i] = ServiceStore[last.list[i].ID]

(***************************************************************************)
(* Properties of the stock bound                                           *)
(***************************************************************************)
\* C38: every product in the store satisfies the validator's stock bound
\* 0 <= Stock <= 1,000,000 after any sequence of product service operations,
\* including AddStock.
C38_StockWithinValidatorBound ==
  \A k \in DOMAIN products : validateStock(products[k].Stock) = NoError

(***************************************************************************)
(* Properties of handlers that call the bus                                *)
(***************************************************************************)
\* the innermost call waits for the mutex and cannot get it: the goroutine
\* itself holds it, so it waits for ever
Blocked ==
  /\ Stack # <<>>
  /\ \/ Top.pc = "Lock" /\ ~CanLock(mutex.bus)
     \/ Top.pc = "RLock" /\ ~CanRLock(mutex.bus)

\* C39: Publish does not hold the bus lock while handlers run: a handler that
\* calls Subscribe, Unsubscribe or Publish on the same bus during dispatch
\* does not deadlock, and every Publish call terminates provided each
\* handler terminates.  While a handler runs the mutex is free, no call ever
\* waits for a mutex it cannot get, and every call on the stack returns.
C39_NoDeadlockInDispatch ==
  /\ []((Stack # <<>> /\ Top.pc = "Loop") => CanLock(mutex.bus))
  /\ []~Blocked
  /\ (Stack # <<>>) ~> (Stack = <<>>)

\* a handler of a Publish has called a nested Publish of the same type, and
\* the handler of the nested Publish has subscribed a handler to that type
\* and is running again: the subscriptions are longer than the snapshot
C39_Witness ==
  /\ Len(Stack) = 2
  /\ Stack[1].fn = "Publish"
  /\ Stack[1].called
  /\ Stack[2].fn = "Publish"
  /\ Stack[2].pc = "Loop"
  /\ Stack[2].called
  /\ Stack[2].type = Stack[1].type
  /\ handlers[Stack[2].type].len > Stack[2].snap.len

====
